---------------------------- MODULE Spec2Model ----------------------------
(***************************************************************************)
(* Model of the selector resolution, caching and self-healing engine of    *)
(* mobile-app-tester: determineLocatorStrategy / extractElementName /      *)
(* executeCommand (command_utils.js), loadCache / saveCache (pom_cache.js),*)
(* switchToWebview / switchToNative (context_utils.js) and the step loop   *)
(* of executeTest (test_executor.js).                                      *)
(*                                                                         *)
(* JavaScript strings are sequences of one-character strings, so that      *)
(* startsWith, includes, split, trim, toLowerCase and the regular          *)
(* expressions of the source are computed as the source computes them.     *)
(* null and undefined are the two one-element sequences Null, Undefined.   *)
(***************************************************************************)
EXTENDS Integers, Sequences, FiniteSets, TLC

VARIABLES
    probe,          \* the pure function under test: [fn, in, out]
    files,          \* durable storage: platform -> content of pom_<platform>.json
    POM_FILE_PATH,  \* pom_cache.js: platform of the current file path, or NoPath
    pomCache,       \* pom_cache.js: the shared in-memory cache (top-level map)
    lastSave,       \* history: outcome of the latest saveCache ("none", "ok", "failed", "nopath")
    pc,             \* run -> control point of executeTest / executeCommand
    run,            \* run -> the locals of executeTest
    call,           \* run -> the locals of the executeCommand call in progress
    driver,         \* run -> state of the automation session (current context)
    localCache,     \* run -> the object its appSelectorCache refers to, once it is
                    \*        no longer the object pomCache[appId]
    emitted,        \* run -> socket events emitted so far
    log             \* run -> history of the driver and collaborator calls of the current step

vars == <<probe, files, POM_FILE_PATH, pomCache, lastSave, pc, run, call, driver,
          localCache, emitted, log>>

Runs == {1, 2}

----------------------------------------------------------------------------
(* JavaScript values and string primitives *)

Null == <<"<null>">>
Undefined == <<"<undefined>">>

\* JavaScript truthiness of a string-or-null value
Truthy(v) == v # Null /\ v # Undefined /\ v # <<>>

UpperCase == <<"A", "B", "C", "D", "E", "F", "G", "H", "I", "J", "K", "L", "M", "N", "O", "P", "Q", "R", "S", "T", "U", "V", "W", "X", "Y", "Z">>
LowerCase == <<"a", "b", "c", "d", "e", "f", "g", "h", "i", "j", "k", "l", "m", "n", "o", "p", "q", "r", "s", "t", "u", "v", "w", "x", "y", "z">>

LowerChar(c) ==
    IF \E k \in 1..26 : UpperCase[k] = c
    THEN LowerCase[CHOOSE k \in 1..26 : UpperCase[k] = c]
    ELSE c

\* String.prototype.toLowerCase
ToLowerCase(s) == [k \in 1..Len(s) |-> LowerChar(s[k])]

\* String.prototype.startsWith
StartsWith(s, p) == Len(p) <= Len(s) /\ SubSeq(s, 1, Len(p)) = p

\* the positions at which sub occurs in s
Occurrences(s, sub) ==
    {k \in 1..(Len(s) - Len(sub) + 1) : SubSeq(s, k, k + Len(sub) - 1) = sub}

\* String.prototype.includes
Includes(s, sub) == Occurrences(s, sub) # {}

Min(S) == CHOOSE x \in S : \A y \in S : x <= y
Max(S) == CHOOSE x \in S : \A y \in S : x >= y

WhiteSpace == {" ", "\t", "\n", "\r"}

\* String.prototype.trim
Trim(s) ==
    LET keep == {k \in 1..Len(s) : s[k] \notin WhiteSpace}
    IN  IF keep = {} THEN <<>> ELSE SubSeq(s, Min(keep), Max(keep))

\* String.prototype.split with a non-empty separator
RECURSIVE Split(_, _)
Split(s, sep) ==
    IF Occurrences(s, sep) = {}
    THEN <<s>>
    ELSE LET k == Min(Occurrences(s, sep))
         IN  <<SubSeq(s, 1, k - 1)>> \o Split(SubSeq(s, k + Len(sep), Len(s)), sep)

\* String.prototype.replace(/[`"']/g, '')
StripQuotes(s) == SelectSeq(s, LAMBDA c : c \notin {"`", "\"", "'"})

----------------------------------------------------------------------------
(* String constants of the source *)

STRAT_UNKNOWN == <<"u", "n", "k", "n", "o", "w", "n">>
STRAT_ACCESSIBILITY == <<"a", "c", "c", "e", "s", "s", "i", "b", "i", "l", "i", "t", "y", "-", "i", "d">>
STRAT_RESOURCE == <<"r", "e", "s", "o", "u", "r", "c", "e", "-", "i", "d">>
STRAT_XPATH == <<"x", "p", "a", "t", "h">>
STRAT_CSS == <<"c", "s", "s">>

Strategies == {STRAT_UNKNOWN, STRAT_ACCESSIBILITY, STRAT_RESOURCE, STRAT_XPATH}

ID_SEPARATOR == <<":", "i", "d", "/">>
KEY_SEPARATOR == <<" ", "-", " ">>

----------------------------------------------------------------------------
(* command_utils.js: the pure helpers *)

\* faulty variant of determineLocatorStrategy: the rule for '//' and '(' is missing
determineLocatorStrategy_NoXPath(selector) ==
    LET s == IF selector = Undefined THEN <<>> ELSE selector
    IN  IF ~Truthy(s) THEN STRAT_UNKNOWN
        ELSE IF StartsWith(s, <<"~">>) THEN STRAT_ACCESSIBILITY
        ELSE IF Includes(s, ID_SEPARATOR) \/ Includes(s, STRAT_RESOURCE) THEN STRAT_RESOURCE
        ELSE STRAT_UNKNOWN

\* faulty variant of determineLocatorStrategy: a rule for the css= prefix is added
determineLocatorStrategy_Css(selector) ==
    LET s == IF selector = Undefined THEN <<>> ELSE selector
    IN  IF ~Truthy(s) THEN STRAT_UNKNOWN
        ELSE IF StartsWith(s, <<"~">>) THEN STRAT_ACCESSIBILITY
        ELSE IF Includes(s, ID_SEPARATOR) \/ Includes(s, STRAT_RESOURCE) THEN STRAT_RESOURCE
        ELSE IF StartsWith(s, <<"/", "/">>) \/ StartsWith(s, <<"(">>) THEN STRAT_XPATH
        ELSE IF StartsWith(s, <<"c", "s", "s", "=">>) THEN STRAT_CSS
        ELSE STRAT_UNKNOWN

\* determineLocatorStrategy(selector = ''): the default parameter replaces
\* undefined only, and !selector is true of null and of the empty string
determineLocatorStrategy(selector) ==
    LET s == IF selector = Undefined THEN <<>> ELSE selector
    IN  IF ~Truthy(s) THEN STRAT_UNKNOWN
        ELSE IF StartsWith(s, <<"~">>) THEN STRAT_ACCESSIBILITY
        ELSE IF Includes(s, ID_SEPARATOR) \/ Includes(s, STRAT_RESOURCE) THEN STRAT_RESOURCE
        ELSE IF StartsWith(s, <<"/", "/">>) \/ StartsWith(s, <<"(">>) THEN STRAT_XPATH
        ELSE STRAT_UNKNOWN

\* step.match(/\*([^*]+)\*/): the interior of the leftmost span *...* with a
\* non-empty interior free of asterisks, or Null when nothing matches
AsteriskMatch(step) ==
    LET stars == {k \in 1..Len(step) : step[k] = "*"}
        opens == {k \in stars : /\ k + 1 <= Len(step)
                                /\ step[k + 1] # "*"
                                /\ \E q \in stars : q > k}
    IN  IF opens = {} THEN Null
        ELSE LET k == Min(opens)
                 q == Min({j \in stars : j > k})
             IN  SubSeq(step, k + 1, q - 1)

\* faulty variant of extractElementName: the interior of the span is not trimmed
extractElementName_Untrimmed(step) ==
    IF AsteriskMatch(step) # Null
    THEN AsteriskMatch(step)
    ELSE LET words == Split(Trim(step), <<" ">>)
         IN  words[Len(words)]

\* extractElementName(step)
extractElementName(step) ==
    IF AsteriskMatch(step) # Null
    THEN Trim(AsteriskMatch(step))
    ELSE LET words == Split(Trim(step), <<" ">>)
         IN  words[Len(words)]

\* `${currentPageName} - ${elementName} - ${strategy}`
CacheKey(page, element, strategy) ==
    page \o KEY_SEPARATOR \o element \o KEY_SEPARATOR \o strategy

----------------------------------------------------------------------------
(* JavaScript objects: a sequence of [k, v] records in insertion order *)

EmptyObject == <<>>

Keys(o) == [n \in 1..Len(o) |-> o[n].k]

Has(o, key) == \E n \in 1..Len(o) : o[n].k = key

\* o[key], Undefined when the property is missing
Get(o, key) ==
    IF Has(o, key) THEN o[CHOOSE n \in 1..Len(o) : o[n].k = key].v ELSE Undefined

\* o[key] = value: an existing property keeps its place, a new one is appended
Set(o, key, value) ==
    IF Has(o, key)
    THEN [n \in 1..Len(o) |-> IF o[n].k = key THEN [k |-> key, v |-> value] ELSE o[n]]
    ELSE Append(o, [k |-> key, v |-> value])

\* delete o[key]
Delete(o, key) == SelectSeq(o, LAMBDA e : e.k # key)

\* The values of the top-level object of pom_<platform>.json: the selector
\* cache of one application (pomCache[appId]), or a selector string (the flat
\* layout shown in README.md)
AppValue(entries) == [kind |-> "app", sel |-> <<>>, entries |-> entries]
SelectorValue(sel) == [kind |-> "selector", sel |-> sel, entries |-> EmptyObject]
NoValue == [kind |-> "undefined", sel |-> <<>>, entries |-> EmptyObject]

TopGet(top, key) ==
    IF Has(top, key) THEN top[CHOOSE n \in 1..Len(top) : top[n].k = key].v ELSE NoValue

\* the selector cache of an application in a top-level object ({} when absent)
AppEntries(top, appId) == TopGet(top, appId).entries

----------------------------------------------------------------------------
(* pom_cache.js *)

NoPath == "null"
Platforms == {"android", "ios"}

FileMissing == [state |-> "missing", doc |-> EmptyObject]
FileUnreadable == [state |-> "unreadable", doc |-> EmptyObject]
FileCorrupt == [state |-> "corrupt", doc |-> EmptyObject]
FileJson(doc) == [state |-> "json", doc |-> doc]

\* faulty variant of MigrateEntry: a migrated key always ends in 'unknown'
MigrateEntry_Unknown(migrated, e) ==
    LET parts == Split(e.k, KEY_SEPARATOR)
    IN  IF Len(parts) = 2
        THEN Set(migrated, CacheKey(parts[1], parts[2], STRAT_UNKNOWN), e.v)
        ELSE Set(migrated, e.k, e.v)

\* loadCache, the body of the for loop: one entry of the parsed file
MigrateEntry(migrated, e) ==
    LET parts == Split(e.k, KEY_SEPARATOR)
    IN  IF Len(parts) = 2
        THEN Set(migrated,
                 CacheKey(parts[1], parts[2], determineLocatorStrategy(e.v.sel)),
                 e.v)
        ELSE Set(migrated, e.k, e.v)

RECURSIVE MigrateFrom(_, _, _)
MigrateFrom(parsed, n, migrated) ==
    IF n > Len(parsed) THEN migrated
    ELSE MigrateFrom(parsed, n + 1, MigrateEntry(migrated, parsed[n]))

\* loadCache, the for loop: the migrated copy of the parsed file
MigratedCache(parsed) == MigrateFrom(parsed, 1, EmptyObject)

\* loadCache: needsMigration
NeedsMigration(parsed) ==
    \E n \in 1..Len(parsed) : Len(Split(parsed[n].k, KEY_SEPARATOR)) = 2

\* loadCache: determineLocatorStrategy(selector) throws a TypeError when the
\* value under a two-part key is an object (selector.startsWith is undefined)
MigrationThrows(parsed) ==
    \E n \in 1..Len(parsed) :
        /\ Len(Split(parsed[n].k, KEY_SEPARATOR)) = 2
        /\ parsed[n].v.kind # "selector"

\* faulty variant of LoadedCache: a file that cannot be used leaves the cache
\* of the previous run in memory
LoadedCache_Stale(file) ==
    IF file.state = "json" /\ ~MigrationThrows(file.doc)
    THEN MigratedCache(file.doc)
    ELSE pomCache

\* loadCache: the in-memory cache the call leaves behind, before any save
LoadedCache(file) ==
    IF file.state = "json" /\ ~MigrationThrows(file.doc)
    THEN MigratedCache(file.doc)
    ELSE EmptyObject

\* fs.writeFileSync(POM_FILE_PATH, JSON.stringify(pomCache, null, 2)): the
\* file after the call. outcome "ok": written; "failed": the call threw and
\* the file is as before; "truncated": the call threw after the file had
\* been opened for writing, leaving text that is no JSON document
WriteOutcomes == {"ok", "failed", "truncated"}

\* fs.writeFileSync that leaves the file as it was and reports success
WrittenFile_Kept(old, cache, outcome) == old

WrittenFile(old, cache, outcome) ==
    CASE outcome = "ok" -> FileJson(cache)
      [] outcome = "failed" -> old
      [] outcome = "truncated" -> FileCorrupt

\* saveCache that reports success and leaves the files as they were
SavedFiles_Unwritten(fs, path, cache, outcome) == fs

\* saveCache(): the files after saving `cache` to the file of `path`
SavedFiles(fs, path, cache, outcome) ==
    IF path = NoPath THEN fs
    ELSE [fs EXCEPT ![path] = WrittenFile(fs[path], cache, outcome)]

\* history of saveCache: what the latest call did
SaveResult(path, outcome) ==
    IF path = NoPath THEN "nopath" ELSE IF outcome = "ok" THEN "ok" ELSE "failed"

\* saveCache() as a step: writes the (new) in-memory cache `cache`
SaveCache(cache, outcome) ==
    /\ files' = SavedFiles(files, POM_FILE_PATH, cache, outcome)
    /\ lastSave' = SaveResult(POM_FILE_PATH, outcome)

\* loadCache(platform)
LoadCache(platform, outcome) ==
    LET file == files[platform]
        loaded == LoadedCache(file)
        saves == file.state = "json" /\ ~MigrationThrows(file.doc)
                     /\ NeedsMigration(file.doc)
    IN  /\ POM_FILE_PATH' = platform
        /\ pomCache' = loaded
        /\ IF saves
           THEN /\ files' = SavedFiles(files, platform, loaded, outcome)
                /\ lastSave' = SaveResult(platform, outcome)
           ELSE /\ outcome = "ok"
                /\ files' = files
                /\ lastSave' = "none"

----------------------------------------------------------------------------
(* The selector cache of a run: appSelectorCache *)

\* appSelectorCache is a reference to the object pomCache[appId] held when the
\* run started; it is that object for as long as pomCache still holds it
CacheOf(r) ==
    IF localCache[r].detached
    THEN localCache[r].entries
    ELSE AppEntries(pomCache, run[r].appId)

\* a mutation of appSelectorCache followed by saveCache()
WriteCacheAndSave(r, entries, outcome) ==
    IF localCache[r].detached
    THEN /\ localCache' = [localCache EXCEPT ![r].entries = entries]
         /\ pomCache' = pomCache
         /\ SaveCache(pomCache, outcome)
    ELSE /\ localCache' = localCache
         /\ pomCache' = Set(pomCache, run[r].appId, AppValue(entries))
         /\ SaveCache(Set(pomCache, run[r].appId, AppValue(entries)), outcome)

CacheUnchanged == UNCHANGED <<pomCache, localCache, files, lastSave>>

----------------------------------------------------------------------------
(* command_utils.js: executeCommand *)

\* a command object: command.command, command.selector, command.value
Command(name, selector) == [command |-> name, selector |-> selector]

\* const safeCommand = command || {}
NoCommand == Command("undefined", Undefined)

LogEntry(op, arg, phase, ok) == [op |-> op, arg |-> arg, phase |-> phase, ok |-> ok]

\* performAction calls the driver only for click and setValue
ActsOnDriver(command) == command.command \in {"click", "setValue"}

\* the cache key executeCommand looks up: built from the strategy of the
\* command's own selector (safeCommand.selector || '')
LookupStrategy(command) ==
    determineLocatorStrategy(IF Truthy(command.selector) THEN command.selector ELSE <<>>)

LookupKey(c) ==
    CacheKey(c.page, extractElementName(c.step), LookupStrategy(c.command))

\* faulty variant of FinalKey: the write-back reuses the key of the lookup
FinalKey_Lookup(c, finalSelector) == LookupKey(c)

\* the key under which the selector that resolved is written back
FinalKey(c, finalSelector) ==
    CacheKey(c.page, extractElementName(c.step), determineLocatorStrategy(finalSelector))

\* the locals of a call executeCommand(browser, command, ..., currentPageName,
\* originalStepText, findElement)
NewCall(command, page, step) ==
    [command |-> command, page |-> page, step |-> step,
     cachedSelector |-> Undefined, finalSelector |-> Undefined, error |-> "none"]

NoCall == NewCall(NoCommand, <<>>, <<>>)

\* faulty variant of AfterCacheControl: the command's selector is always tried
AfterCacheControl_Direct(c) == "cmd_direct"

\* where executeCommand first waits: on the cached selector when the cache
\* holds a truthy value under the lookup key, else on the command's selector,
\* else (no selector) on the page source of the self-healing protocol
AfterCacheControl(c) ==
    IF Truthy(c.command.selector) THEN "cmd_direct" ELSE "cmd_heal"

\* faulty variant of FirstControl: the cache is not consulted
FirstControl_NoCache(c, cache) == AfterCacheControl(c)

FirstControl(c, cache) ==
    IF Truthy(Get(cache, LookupKey(c))) THEN "cmd_cached" ELSE AfterCacheControl(c)

\* executeCommand up to its first await
EnterCommand(r, command, page, step) ==
    LET c == NewCall(command, page, step)
    IN  /\ call' = [call EXCEPT ![r] =
                      [c EXCEPT !.cachedSelector = Get(CacheOf(r), LookupKey(c))]]
        /\ pc' = [pc EXCEPT ![r] = FirstControl(c, CacheOf(r))]

\* step 1, the cached selector: findElement, waitForExist and performAction
\* are awaited inside one try block; any failure deletes the entry and saves
CmdCached(r) ==
    /\ pc[r] = "cmd_cached"
    /\ LET c == call[r] IN
       \/ \* found, exists, acted: return
          /\ log' = [log EXCEPT ![r] = @ \o
                <<LogEntry("findElement", c.cachedSelector, "cached", TRUE)>> \o
                (IF ActsOnDriver(c.command)
                 THEN <<LogEntry("action", c.cachedSelector, "cached", TRUE)>> ELSE <<>>)]
          /\ pc' = [pc EXCEPT ![r] = "cmd_returned"]
          /\ UNCHANGED call
          /\ CacheUnchanged
       \/ \* findElement or waitForExist throws
          \E outcome \in WriteOutcomes :
            /\ log' = [log EXCEPT ![r] = @ \o
                  <<LogEntry("findElement", c.cachedSelector, "cached", FALSE)>>]
            /\ WriteCacheAndSave(r, Delete(CacheOf(r), LookupKey(c)), outcome)
            /\ pc' = [pc EXCEPT ![r] = AfterCacheControl(c)]
            /\ UNCHANGED call
       \/ \* the element is found and click / setValue throws
          \E outcome \in WriteOutcomes :
            /\ ActsOnDriver(c.command)
            /\ log' = [log EXCEPT ![r] = @ \o
                  <<LogEntry("findElement", c.cachedSelector, "cached", TRUE),
                    LogEntry("action", c.cachedSelector, "cached", FALSE)>>]
            /\ WriteCacheAndSave(r, Delete(CacheOf(r), LookupKey(c)), outcome)
            /\ pc' = [pc EXCEPT ![r] = AfterCacheControl(c)]
            /\ UNCHANGED call
    /\ UNCHANGED <<probe, POM_FILE_PATH, run, driver, emitted>>

\* step 2, the command's own selector: findElement and waitForExist
CmdDirect(r) ==
    /\ pc[r] = "cmd_direct"
    /\ LET c == call[r] IN
       \/ /\ log' = [log EXCEPT ![r] = @ \o
                <<LogEntry("findElement", c.command.selector, "direct", TRUE)>>]
          /\ call' = [call EXCEPT ![r].finalSelector = c.command.selector]
          /\ pc' = [pc EXCEPT ![r] = "cmd_act"]
       \/ /\ log' = [log EXCEPT ![r] = @ \o
                <<LogEntry("findElement", c.command.selector, "direct", FALSE)>>]
          /\ pc' = [pc EXCEPT ![r] = "cmd_heal"]
          /\ UNCHANGED call
    /\ CacheUnchanged
    /\ UNCHANGED <<probe, POM_FILE_PATH, run, driver, emitted>>

\* selectors the collaborators and the cache files use in this model
SEL_A == <<"~", "a">>
SEL_C == <<"~", "c">>
SEL_X == <<"/", "/", "b">>
SEL_T == <<"o", "k">>
SEL_QUOTED_A == <<"\"", "~", "a", "\"">>
SEL_QUOTE == <<"'">>

\* what findCorrectSelector may answer: a selector, a selector wrapped in
\* quotes, or text that is empty once the quotes are removed
HealAnswers == {SEL_QUOTED_A, SEL_X, SEL_T, SEL_QUOTE}

\* faulty variant of CmdHeal: the suggested selector is remembered before it
\* has resolved
CmdHeal_Remembers(r) ==
    /\ pc[r] = "cmd_heal"
    /\ LET c == call[r] IN
       \E answer \in HealAnswers, outcome \in WriteOutcomes :
         LET newSelector == StripQuotes(answer) IN
         /\ log' = [log EXCEPT ![r] = @ \o
               <<LogEntry("findCorrectSelector", c.step, "heal", TRUE),
                 LogEntry("findElement", newSelector, "heal", FALSE)>>]
         /\ WriteCacheAndSave(r, Set(CacheOf(r), FinalKey(c, newSelector), newSelector),
                              outcome)
         /\ call' = [call EXCEPT ![r].error = "not_found"]
         /\ pc' = [pc EXCEPT ![r] = "cmd_threw"]
    /\ UNCHANGED <<probe, POM_FILE_PATH, run, driver, emitted>>

\* step 3, self-healing: getPageSource, findCorrectSelector, the removal of
\* quoting characters, findElement and waitForExist, all inside one try block
\* whose catch throws the element-not-found error
CmdHeal(r) ==
    /\ pc[r] = "cmd_heal"
    /\ LET c == call[r]
           notFound == /\ call' = [call EXCEPT ![r].error = "not_found"]
                       /\ pc' = [pc EXCEPT ![r] = "cmd_threw"]
       IN
       \/ \* browser.getPageSource() throws
          /\ log' = [log EXCEPT ![r] = @ \o
                <<LogEntry("getPageSource", <<>>, "heal", FALSE)>>]
          /\ notFound
       \/ \* findCorrectSelector throws
          /\ log' = [log EXCEPT ![r] = @ \o
                <<LogEntry("findCorrectSelector", c.step, "heal", FALSE)>>]
          /\ notFound
       \/ \E answer \in HealAnswers :
            LET newSelector == StripQuotes(answer) IN
            \/ \* findElement throws on an empty selector, or nothing is found
               /\ log' = [log EXCEPT ![r] = @ \o
                     <<LogEntry("findCorrectSelector", c.step, "heal", TRUE),
                       LogEntry("findElement", newSelector, "heal", FALSE)>>]
               /\ notFound
            \/ /\ Truthy(newSelector)
               /\ log' = [log EXCEPT ![r] = @ \o
                     <<LogEntry("findCorrectSelector", c.step, "heal", TRUE),
                       LogEntry("findElement", newSelector, "heal", TRUE)>>]
               /\ call' = [call EXCEPT ![r].finalSelector = newSelector]
               /\ pc' = [pc EXCEPT ![r] = "cmd_act"]
    /\ CacheUnchanged
    /\ UNCHANGED <<probe, POM_FILE_PATH, run, driver, emitted>>

\* faulty variant of WrittenBack: the selector that resolved is not remembered
WrittenBack_Skipped(c, cache) == cache

\* step 4: the entries of the cache after the write-back of finalSelector
WrittenBack(c, cache) ==
    IF Truthy(c.finalSelector)
    THEN Set(cache, FinalKey(c, c.finalSelector), c.finalSelector)
    ELSE cache

\* step 4: performAction(element), then the write-back and saveCache(); a
\* failing click / setValue is not caught and leaves executeCommand as it is
CmdAct(r) ==
    /\ pc[r] = "cmd_act"
    /\ LET c == call[r] IN
       \/ \E outcome \in WriteOutcomes :
            /\ log' = [log EXCEPT ![r] = @ \o
                  (IF ActsOnDriver(c.command)
                   THEN <<LogEntry("action", c.finalSelector, "final", TRUE)>> ELSE <<>>)]
            /\ IF Truthy(c.finalSelector)
               THEN WriteCacheAndSave(r, WrittenBack(c, CacheOf(r)), outcome)
               ELSE outcome = "ok" /\ CacheUnchanged
            /\ pc' = [pc EXCEPT ![r] = "cmd_pause"]
            /\ UNCHANGED call
       \/ /\ ActsOnDriver(c.command)
          /\ log' = [log EXCEPT ![r] = @ \o
                <<LogEntry("action", c.finalSelector, "final", FALSE)>>]
          /\ call' = [call EXCEPT ![r].error = "driver"]
          /\ pc' = [pc EXCEPT ![r] = "cmd_threw"]
          /\ CacheUnchanged
    /\ UNCHANGED <<probe, POM_FILE_PATH, run, driver, emitted>>

\* await browser.pause(1000), then return
CmdPause(r) ==
    /\ pc[r] = "cmd_pause"
    /\ log' = [log EXCEPT ![r] = @ \o <<LogEntry("pause", <<>>, "final", TRUE)>>]
    /\ pc' = [pc EXCEPT ![r] = "cmd_returned"]
    /\ CacheUnchanged
    /\ UNCHANGED <<probe, POM_FILE_PATH, run, call, driver, emitted>>

ExecuteCommandStep(r) ==
    CmdCached(r) \/ CmdDirect(r) \/ CmdHeal(r) \/ CmdAct(r) \/ CmdPause(r)

----------------------------------------------------------------------------
(* Inputs *)

PAGE_INITIAL == <<"i", "n", "i", "t", "i", "a", "l">>
PAGE_LOGIN == <<"l", "o", "g", "i", "n">>
Pages == {PAGE_INITIAL, PAGE_LOGIN}

APP_EXAMPLE == <<"c", "o", "m", ".", "e", "x", "a", "m", "p", "l", "e">>
APP_UNKNOWN == <<"u", "n", "k", "n", "o", "w", "n">>

\* "Tap the *Login* button", "Tap the Login button"
STEP_TAP_MARKED == <<"T", "a", "p", " ", "t", "h", "e", " ", "*", "L", "o", "g", "i", "n", "*", " ", "b", "u", "t", "t", "o", "n">>
STEP_TAP_PLAIN == <<"T", "a", "p", " ", "t", "h", "e", " ", "L", "o", "g", "i", "n", " ", "b", "u", "t", "t", "o", "n">>
OrdinarySteps == {STEP_TAP_MARKED, STEP_TAP_PLAIN}

\* the commands a translation may carry
CommandNames == {"click", "setValue", "verifyVisible"}
CommandSelectors == {Null, <<>>, SEL_A, SEL_C, SEL_X}
Commands == {Command(n, s) : n \in CommandNames, s \in CommandSelectors}

\* the selectors found in cache files
CachedSelectors == {SEL_A, SEL_C, SEL_X, SEL_T}

\* an entry as executeCommand and the wait step write it
WrittenEntry(page, element, sel) ==
    [k |-> CacheKey(page, element, determineLocatorStrategy(sel)), v |-> sel]

\* an entry as the two-part-key version of executeCommand wrote it
LegacyEntry(page, element, sel) ==
    [k |-> page \o KEY_SEPARATOR \o element, v |-> sel]

ElementNames == {extractElementName(st) : st \in OrdinarySteps}

WrittenEntries ==
    {WrittenEntry(p, e, s) : p \in Pages, e \in ElementNames, s \in CachedSelectors}

\* the application caches a call may be given: at most MaxCacheEntries entries
MaxCacheEntries == 1

RECURSIVE ObjectsOver(_, _)
ObjectsOver(entries, n) ==
    IF n = 0 THEN {EmptyObject}
    ELSE LET smaller == ObjectsOver(entries, n - 1)
         IN  smaller \cup {Append(o, e) : o \in {x \in smaller : Len(x) = n - 1},
                                         e \in {y \in entries : TRUE}}

\* objects hold a key once
WellFormed(o) == \A m, n \in 1..Len(o) : o[m].k = o[n].k => m = n

InitialCaches == {o \in ObjectsOver(WrittenEntries, MaxCacheEntries) : WellFormed(o)}

----------------------------------------------------------------------------
(* The idle values of the variables *)

\* the locals of executeTest before the call: i counts the steps from 1
\* (stepNumber), polls and ret belong to the switchToWebview call in progress,
\* translateCalls lists the step texts translateStepsToCommands answered for,
\* cleanup the calls the finally block made
IdleRun ==
    [platform |-> "android", rawSteps |-> <<>>, browser |-> FALSE,
     appId |-> APP_EXAMPLE, allSteps |-> <<>>, i |-> 0,
     currentPageName |-> PAGE_INITIAL, activeContext |-> "native",
     nextSelector |-> Undefined, polls |-> 0, ret |-> "none",
     commandResponse |-> [shape |-> "none", command |-> NoCommand],
     translateCalls |-> <<>>, cleanup |-> <<>>]

NATIVE_APP == <<"N", "A", "T", "I", "V", "E", "_", "A", "P", "P">>

IdleDriver == [context |-> NATIVE_APP]

IdleProbe == [fn |-> "none", in |-> <<>>, out |-> <<>>]

NotDetached == [detached |-> FALSE, entries |-> EmptyObject]
Detached(entries) == [detached |-> TRUE, entries |-> entries]

----------------------------------------------------------------------------
(* SpecCmd: executeCommand called on its own, as the unit test of           *)
(* run-browserstack-tests.js calls it: with a cache object of the caller.   *)

InitCmd ==
    /\ files = [p \in Platforms |-> FileMissing]
    /\ POM_FILE_PATH \in {NoPath, "android"}
    /\ pomCache = EmptyObject
    /\ lastSave = "none"
    /\ run = [r \in Runs |-> IdleRun]
    /\ driver = [r \in Runs |-> IdleDriver]
    /\ emitted = [r \in Runs |-> <<>>]
    /\ log = [r \in Runs |-> <<>>]
    /\ \E command \in Commands \cup {NoCommand}, page \in Pages,
          step \in OrdinarySteps, cache \in InitialCaches :
         LET c == NewCall(command, page, step) IN
         \* history: the entries of the cache object when the call was made
         /\ probe = [fn |-> "executeCommand", in |-> cache, out |-> <<>>]
         /\ localCache = [r \in Runs |-> IF r = 1 THEN Detached(cache) ELSE NotDetached]
         /\ call = [r \in Runs |->
                      IF r = 1
                      THEN [c EXCEPT !.cachedSelector = Get(cache, LookupKey(c))]
                      ELSE NoCall]
         /\ pc = [r \in Runs |-> IF r = 1 THEN FirstControl(c, cache) ELSE "idle"]

NextCmd == ExecuteCommandStep(1)

SpecCmd == InitCmd /\ [][NextCmd]_vars

----------------------------------------------------------------------------
(* Properties of executeCommand, under SpecCmd *)

CallEnded(r) == pc[r] \in {"cmd_returned", "cmd_threw"}

Logged(r, op, phase, ok) ==
    \E n \in 1..Len(log[r]) :
        log[r][n].op = op /\ log[r][n].phase = phase /\ log[r][n].ok = ok

CountOf(r, op) == Cardinality({n \in 1..Len(log[r]) : log[r][n].op = op})

\* the command's own selector did not resolve: it was tried and failed, or the
\* command carries none
DirectFailed(r) ==
    \/ Logged(r, "findElement", "direct", FALSE)
    \/ (~Truthy(call[r].command.selector) /\ \E n \in 1..Len(log[r]) : log[r][n].phase = "heal")

HealResolved(r) == Logged(r, "findElement", "heal", TRUE)

\* the element of the final attempt was acted upon without error
ActionSucceeded(r) == ~Logged(r, "action", "final", FALSE)

HoldsHealed(r) ==
    Get(CacheOf(r),
        CacheKey(call[r].page, extractElementName(call[r].step),
                 determineLocatorStrategy(call[r].finalSelector))) = call[r].finalSelector

HadCachedEntry(r) == Truthy(call[r].cachedSelector)

CachedFirst(r) ==
    Len(log[r]) > 0 =>
        /\ log[r][1].op = "findElement"
        /\ log[r][1].phase = "cached"
        /\ log[r][1].arg = call[r].cachedSelector

NothingBeyondCache(r) ==
    /\ ActsOnDriver(call[r].command) =>
          \E n \in 1..Len(log[r]) :
              /\ log[r][n].op = "action"
              /\ log[r][n].phase = "cached"
              /\ log[r][n].arg = call[r].cachedSelector
    /\ \A n \in 1..Len(log[r]) :
          /\ log[r][n].phase = "cached"
          /\ log[r][n].op # "findCorrectSelector"

UsedSelector(r) ==
    LET found == {n \in 1..Len(log[r]) : log[r][n].op = "findElement" /\ log[r][n].ok}
    IN  log[r][Max(found)].arg

C8_AsStated ==
    pc[1] = "cmd_threw" =>
        /\ call[1].error = "not_found"
        /\ \E n \in 1..Len(log[1]) : log[1][n].phase = "heal" /\ ~log[1][n].ok

----------------------------------------------------------------------------
(* command_utils.js: executeTest, the command taken from the response of
   translateStepsToCommands *)

\* the shapes translateStepsToCommands answers in
Response(shape, command) == [shape |-> shape, command |-> command]

\* no response yet: commandResponse before translateStepsToCommands answered
NoResponse == Response("none", NoCommand)

TranslatedCommands == {Command("click", SEL_A), Command("click", Null)}

TranslationResponses ==
    {Response(shape, c) : shape \in {"bare", "array", "wrapped"}, c \in TranslatedCommands}
        \cup {Response("null", NoCommand), Response("emptyArray", NoCommand)}

\* Array.isArray(response) ? response[0] : response; an object without a
\* command property (the wrapped shape, null, undefined) is NoCommand here
FirstCommand(response) ==
    IF response.shape \in {"bare", "array"} THEN response.command ELSE NoCommand

\* the placeholder that sends executeCommand to self-healing
Placeholder == Command("verifyVisible", Null)

\* faulty variant of CommandToExecute: no placeholder is made
CommandToExecute_Raw(response) == FirstCommand(response)

\* commandToExecute
CommandToExecute(response) ==
    LET first == FirstCommand(response)
    IN  IF first = NoCommand \/ first.command = "undefined" THEN Placeholder ELSE first

\* nextCommand && nextCommand.selector
NextSelector(response) ==
    LET first == FirstCommand(response)
    IN  IF first = NoCommand THEN Undefined ELSE first.selector

----------------------------------------------------------------------------
(* SpecPure: the pure helpers applied to bounded sets of inputs *)

MaxFragments == 3
MaxStepLen == 4

StringsOver(alphabet, n) == UNION {[1..k -> alphabet] : k \in 0..n}

\* selectors are built from the fragments the classifier looks for
SelectorFragments ==
    {<<"~">>, <<"/", "/">>, <<"(">>, ID_SEPARATOR, STRAT_RESOURCE, <<"a">>, <<".">>,
     <<"c", "s", "s", "=">>}

RECURSIVE Concatenations(_, _)
Concatenations(fragments, n) ==
    IF n = 0 THEN {<<>>}
    ELSE LET shorter == Concatenations(fragments, n - 1)
         IN  shorter \cup {s \o f : s \in shorter, f \in fragments}

StepAlphabet == {"*", " ", "a", "b", "\t"}

\* "~loginButton", "com.example:id/login", "//android.widget.Button",
\* "css=.btn", "//*[@resource-id="x"]", "resource-id:foo", "(//a)[1]"
SEL_LOGIN_BUTTON == <<"~", "l", "o", "g", "i", "n", "B", "u", "t", "t", "o", "n">>
SEL_EXAMPLE_LOGIN == <<"c", "o", "m", ".", "e", "x", "a", "m", "p", "l", "e", ":", "i", "d", "/", "l", "o", "g", "i", "n">>
SEL_ANDROID_BUTTON == <<"/", "/", "a", "n", "d", "r", "o", "i", "d", ".", "w", "i", "d", "g", "e", "t", ".", "B", "u", "t", "t", "o", "n">>
SEL_CSS_BTN == <<"c", "s", "s", "=", ".", "b", "t", "n">>
SEL_XPATH_RESOURCE == <<"/", "/", "*", "[", "@", "r", "e", "s", "o", "u", "r", "c", "e", "-", "i", "d", "=", "\"", "x", "\"", "]">>
SEL_RESOURCE_PREFIX == <<"r", "e", "s", "o", "u", "r", "c", "e", "-", "i", "d", ":", "f", "o", "o">>
SEL_XPATH_PAREN == <<"(", "/", "/", "a", ")", "[", "1", "]">>

NamedSelectors ==
    {SEL_LOGIN_BUTTON, SEL_EXAMPLE_LOGIN, SEL_ANDROID_BUTTON, SEL_CSS_BTN,
     SEL_XPATH_RESOURCE, SEL_RESOURCE_PREFIX, SEL_XPATH_PAREN, SEL_A, SEL_X, SEL_T}

SelectorInputs ==
    Concatenations(SelectorFragments, MaxFragments) \cup NamedSelectors
        \cup {Null, Undefined}

StepInputs == StringsOver(StepAlphabet, MaxStepLen) \cup OrdinarySteps

Pending == <<"<pending>">>

WEBVIEW_PREFIX == <<"W", "E", "B", "V", "I", "E", "W">>
WEBVIEW_EXAMPLE == <<"W", "E", "B", "V", "I", "E", "W", "_", "c", "o", "m", ".", "e", "x", "a", "m", "p", "l", "e">>

\* "resource-id=foo", "new UiSelector().resourceId(a:id/b)",
\* "new UiSelector().resourceId("x")", "new UiSelector().resourceId(e)",
\* "name=ok", "label=ok", "CSS=.btn"
SEL_RESOURCE_EQ == <<"r", "e", "s", "o", "u", "r", "c", "e", "-", "i", "d", "=", "f", "o", "o">>
SEL_UISELECTOR_BARE == <<"n", "e", "w", " ", "U", "i", "S", "e", "l", "e", "c", "t", "o", "r", "(", ")", ".", "r", "e", "s", "o", "u", "r", "c", "e", "I", "d", "(", "a", ":", "i", "d", "/", "b", ")">>
SEL_UISELECTOR_QUOTED == <<"n", "e", "w", " ", "U", "i", "S", "e", "l", "e", "c", "t", "o", "r", "(", ")", ".", "r", "e", "s", "o", "u", "r", "c", "e", "I", "d", "(", "\"", "x", "\"", ")">>
SEL_UISELECTOR_E == <<"n", "e", "w", " ", "U", "i", "S", "e", "l", "e", "c", "t", "o", "r", "(", ")", ".", "r", "e", "s", "o", "u", "r", "c", "e", "I", "d", "(", "e", ")">>
SEL_NAME_OK == <<"n", "a", "m", "e", "=", "o", "k">>
SEL_LABEL_OK == <<"l", "a", "b", "e", "l", "=", "o", "k">>
SEL_CSS_UPPER == <<"C", "S", "S", "=", ".", "b", "t", "n">>

\* the selectors findElement is called with
FindSelectors ==
    NamedSelectors \cup {SEL_RESOURCE_EQ, SEL_UISELECTOR_BARE, SEL_UISELECTOR_QUOTED,
                         SEL_UISELECTOR_E, SEL_NAME_OK, SEL_LABEL_OK, SEL_CSS_UPPER}
        \cup {Null, Undefined, <<>>}

\* the context the driver is in when findElement is called, and whether
\* browser.getContext() answers it or throws
FindContexts == {NATIVE_APP, WEBVIEW_EXAMPLE}
GetContextOutcomes == {"answers", "throws"}

FindInputs ==
    [selector : FindSelectors, context : FindContexts, getContext : GetContextOutcomes]

\* findElement throws 'Selector is null or undefined.'
SelectorError == <<"<Selector is null or undefined.>">>

\* the queries of findElement outside a WEBVIEW context: the structured
\* prefixes, the accessibility id, the ':id/' separator, the flexible XPath
MobileQuery(selector) ==
    LET lower == ToLowerCase(selector)
        Rest(n) == SubSeq(selector, n + 1, Len(selector))
        \* selector.match(/resourceId\(([^)]+)\)/): the first group, or Null
        open == <<"r", "e", "s", "o", "u", "r", "c", "e", "I", "d", "(">>
        starts == {p \in Occurrences(selector, open) :
                     /\ p + Len(open) <= Len(selector)
                     /\ selector[p + Len(open)] # ")"
                     /\ \E q \in (p + Len(open) + 1)..Len(selector) : selector[q] = ")"}
        from == Min(starts) + Len(open)
        resourceIdMatch ==
            IF starts = {} THEN Null
            ELSE SubSeq(selector, from,
                        Min({q \in (from + 1)..Len(selector) : selector[q] = ")"}) - 1)
        \* selector.replace(group, '"' + group + '"'): the first occurrence
        at == Min(Occurrences(selector, resourceIdMatch))
        sanitizedSelector ==
            IF resourceIdMatch # Null /\ ~StartsWith(resourceIdMatch, <<"\"">>)
            THEN SubSeq(selector, 1, at - 1) \o <<"\"">> \o resourceIdMatch \o <<"\"">>
                     \o Rest(at + Len(resourceIdMatch) - 1)
            ELSE selector
        contains(attribute) ==
            <<"c", "o", "n", "t", "a", "i", "n", "s", "(", "t", "r", "a", "n", "s", "l", "a", "t", "e", "(", "@">> \o attribute \o <<",", " ", "'">>
                \o UpperCase \o <<"'", ",", " ", "'">> \o LowerCase
                \o <<"'", ")", ",", " ", "\"">> \o lower \o <<"\"", ")">>
        or == <<" ", "o", "r", " ">>
    IN  IF StartsWith(lower, <<"r", "e", "s", "o", "u", "r", "c", "e", "-", "i", "d", ":">>)
           \/ StartsWith(lower, <<"r", "e", "s", "o", "u", "r", "c", "e", "-", "i", "d", "=">>)
        THEN <<"i", "d", ":">> \o Rest(12)
        ELSE IF StartsWith(lower, <<"n", "e", "w", " ", "u", "i", "s", "e", "l", "e", "c", "t", "o", "r">>)
        THEN <<"a", "n", "d", "r", "o", "i", "d", "=">> \o sanitizedSelector
        ELSE IF StartsWith(selector, <<"~">>) THEN selector
        ELSE IF StartsWith(lower, <<"n", "a", "m", "e", "=">>)
        THEN <<"~">> \o Rest(5)
        ELSE IF StartsWith(lower, <<"l", "a", "b", "e", "l", "=">>)
        THEN <<"/", "/", "*", "[", "@", "l", "a", "b", "e", "l", "=", "\"">> \o Rest(6) \o <<"\"", "]">>
        ELSE IF Includes(selector, <<":", "i", "d", "/">>)
        THEN <<"i", "d", ":">> \o selector
        ELSE <<"/", "/", "*", "[">>
                 \o contains(<<"t", "e", "x", "t">>) \o or
                 \o contains(<<"c", "o", "n", "t", "e", "n", "t", "-", "d", "e", "s", "c">>) \o or
                 \o contains(<<"n", "a", "m", "e">>) \o or
                 \o contains(<<"l", "a", "b", "e", "l">>) \o <<"]">>

\* faulty variant of FindElementQuery: the context is not looked at
FindElementQuery_AnyContext(selector, context) ==
    IF StartsWith(ToLowerCase(selector), <<"c", "s", "s", "=">>)
    THEN SubSeq(selector, 5, Len(selector))
    ELSE MobileQuery(selector)

\* the query findElement hands to browser.$ for a truthy selector, context
\* being what getContext answered ('' when it threw)
FindElementQuery(selector, context) ==
    LET inWebView == Truthy(context) /\ StartsWith(context, WEBVIEW_PREFIX)
    IN  IF StartsWith(ToLowerCase(selector), <<"c", "s", "s", "=">>)
        THEN SubSeq(selector, 5, Len(selector))
        ELSE IF inWebView THEN selector
        ELSE MobileQuery(selector)

InitPure ==
    /\ probe \in {[fn |-> "determineLocatorStrategy", in |-> s, out |-> Pending] :
                     s \in SelectorInputs}
                 \cup {[fn |-> "extractElementName", in |-> t, out |-> Pending] :
                     t \in StepInputs}
                 \cup {[fn |-> "commandToExecute", in |-> response, out |-> NoCommand] :
                     response \in TranslationResponses}
                 \cup {[fn |-> "findElement", in |-> input, out |-> Pending] :
                     input \in FindInputs}
    /\ files = [p \in Platforms |-> FileMissing]
    /\ POM_FILE_PATH = NoPath
    /\ pomCache = EmptyObject
    /\ lastSave = "none"
    /\ pc = [r \in Runs |-> "idle"]
    /\ run = [r \in Runs |-> IdleRun]
    /\ call = [r \in Runs |-> NoCall]
    /\ driver = [r \in Runs |-> IdleDriver]
    /\ localCache = [r \in Runs |-> NotDetached]
    /\ emitted = [r \in Runs |-> <<>>]
    /\ log = [r \in Runs |-> <<>>]

ApplyDetermineLocatorStrategy ==
    /\ probe.fn = "determineLocatorStrategy"
    /\ probe.out = Pending
    /\ probe' = [probe EXCEPT !.out = determineLocatorStrategy(probe.in)]
    /\ UNCHANGED <<files, POM_FILE_PATH, pomCache, lastSave, pc, run, call, driver,
                   localCache, emitted, log>>

ApplyExtractElementName ==
    /\ probe.fn = "extractElementName"
    /\ probe.out = Pending
    /\ probe' = [probe EXCEPT !.out = extractElementName(probe.in)]
    /\ UNCHANGED <<files, POM_FILE_PATH, pomCache, lastSave, pc, run, call, driver,
                   localCache, emitted, log>>

\* executeTest: the normalisation of the response of translateStepsToCommands
ApplyCommandToExecute ==
    /\ probe.fn = "commandToExecute"
    /\ probe.out = NoCommand
    /\ probe' = [probe EXCEPT !.out = CommandToExecute(probe.in)]
    /\ UNCHANGED <<files, POM_FILE_PATH, pomCache, lastSave, pc, run, call, driver,
                   localCache, emitted, log>>

\* findElement(selector) up to its call of browser.$
ApplyFindElement ==
    /\ probe.fn = "findElement"
    /\ probe.out = Pending
    /\ probe' = [probe EXCEPT !.out =
                    IF ~Truthy(probe.in.selector) THEN SelectorError
                    ELSE FindElementQuery(probe.in.selector,
                                          IF probe.in.getContext = "answers"
                                          THEN probe.in.context ELSE <<>>)]
    /\ UNCHANGED <<files, POM_FILE_PATH, pomCache, lastSave, pc, run, call, driver,
                   localCache, emitted, log>>

NextPure ==
    \/ ApplyDetermineLocatorStrategy
    \/ ApplyExtractElementName
    \/ ApplyCommandToExecute
    \/ ApplyFindElement

SpecPure == InitPure /\ [][NextPure]_vars

Classified == probe.fn = "determineLocatorStrategy" /\ probe.out # Pending

\* the form pkg:id/name: a package name, the separator ":id/", a name
PackageChars == {".", "c", "o", "m", "e", "x", "a", "p", "l"}
ResourceIdForm(s) ==
    \E k \in Occurrences(s, ID_SEPARATOR) :
        /\ k > 1
        /\ k + Len(ID_SEPARATOR) <= Len(s)
        /\ \A j \in 1..(k - 1) : s[j] \in PackageChars

\* C10: determineLocatorStrategy answers every string, null and undefined with
\* one of resource-id, accessibility-id, xpath, css, unknown; empty, null and
\* undefined give unknown; a leading '~' gives accessibility-id; pkg:id/name
\* gives resource-id; "//android.widget.Button" gives xpath.
C10_ClassifierTotal ==
    Classified =>
        /\ probe.out \in Strategies \cup {STRAT_CSS}
        /\ ~Truthy(probe.in) => probe.out = STRAT_UNKNOWN
        /\ (Truthy(probe.in) /\ StartsWith(probe.in, <<"~">>)) =>
              probe.out = STRAT_ACCESSIBILITY
        /\ (Truthy(probe.in) /\ ResourceIdForm(probe.in)) => probe.out = STRAT_RESOURCE
        /\ probe.in = SEL_ANDROID_BUTTON => probe.out = STRAT_XPATH
        /\ probe.in = SEL_LOGIN_BUTTON => probe.out = STRAT_ACCESSIBILITY
        /\ probe.in = SEL_EXAMPLE_LOGIN => probe.out = STRAT_RESOURCE

\* the classifier has answered null with unknown
C10_Witness == Classified /\ probe.in = Null /\ probe.out = STRAT_UNKNOWN

----------------------------------------------------------------------------
(* SpecCache: the cache operations of successive runs of executeTest, one   *)
(* at a time: loadCache(platform), the creation of pomCache[appId], the     *)
(* write-back and the invalidation of executeCommand.                       *)

ELEMENT_LOGIN == <<"L", "o", "g", "i", "n">>

\* the application ids a session reports
AppIds == {APP_EXAMPLE, APP_UNKNOWN}

\* pom_<platform>.json as runs of this and of earlier versions left it, or as
\* it was edited by hand
DOC_EMPTY == EmptyObject
DOC_NESTED == <<[k |-> APP_EXAMPLE,
                 v |-> AppValue(<<WrittenEntry(PAGE_LOGIN, ELEMENT_LOGIN, SEL_A)>>)]>>
DOC_NESTED_LEGACY == <<[k |-> APP_EXAMPLE,
                        v |-> AppValue(<<LegacyEntry(PAGE_LOGIN, ELEMENT_LOGIN, SEL_A)>>)]>>
DOC_FLAT_LEGACY == <<[k |-> LegacyEntry(PAGE_LOGIN, ELEMENT_LOGIN, SEL_X).k,
                      v |-> SelectorValue(SEL_X)]>>
DOC_FLAT == <<[k |-> WrittenEntry(PAGE_LOGIN, ELEMENT_LOGIN, SEL_A).k,
               v |-> SelectorValue(SEL_A)]>>
DOC_TWO_PART_OBJECT == <<[k |-> LegacyEntry(PAGE_LOGIN, ELEMENT_LOGIN, SEL_A).k,
                          v |-> AppValue(EmptyObject)]>>

StoredDocuments ==
    {DOC_EMPTY, DOC_NESTED, DOC_NESTED_LEGACY, DOC_FLAT_LEGACY, DOC_FLAT,
     DOC_TWO_PART_OBJECT}

StoredFiles ==
    {FileMissing, FileUnreadable, FileCorrupt} \cup {FileJson(d) : d \in StoredDocuments}

\* the keys and selectors the runs write
PutKeys == {WrittenEntry(PAGE_LOGIN, ELEMENT_LOGIN, SEL_A).k,
            WrittenEntry(PAGE_INITIAL, ELEMENT_LOGIN, SEL_X).k}
PutSelectors == {SEL_A, SEL_C}

\* history: the latest mutation of the cache and what happened to it since
NoMutation ==
    [fn |-> "none", in |-> <<>>, key |-> <<>>, out |-> Undefined, platform |-> NoPath,
     saved |-> FALSE, reloaded |-> FALSE, overPut |-> FALSE, count |-> 0]

\* the number of mutations the runs make
MaxMutations == 2

InitCache ==
    /\ probe = NoMutation
    /\ files \in [Platforms -> StoredFiles]
    /\ files["ios"] \in {FileMissing, FileJson(DOC_NESTED)}
    /\ POM_FILE_PATH = NoPath
    /\ pomCache = EmptyObject
    /\ lastSave = "none"
    /\ pc = [r \in Runs |-> "idle"]
    /\ run = [r \in Runs |-> IdleRun]
    /\ call = [r \in Runs |-> NoCall]
    /\ driver = [r \in Runs |-> IdleDriver]
    /\ localCache = [r \in Runs |-> NotDetached]
    /\ emitted = [r \in Runs |-> <<>>]
    /\ log = [r \in Runs |-> <<>>]

\* executeTest: loadCache(targetPlatform), first statement of a run
CacheLoad(r) ==
    /\ pc[r] \in {"idle", "loaded", "connected"}
    /\ \E platform \in Platforms, outcome \in WriteOutcomes :
         /\ LoadCache(platform, outcome)
         /\ run' = [run EXCEPT ![r].platform = platform]
    /\ pc' = [pc EXCEPT ![r] = "loaded"]
    /\ probe' = IF probe.fn = "none" THEN probe ELSE [probe EXCEPT !.reloaded = TRUE]
    /\ UNCHANGED <<call, driver, localCache, emitted, log>>

\* executeTest: if (!pomCache[appId]) pomCache[appId] = {}
EnsuredCache(top, appId) ==
    IF TopGet(top, appId).kind = "undefined"
    THEN Set(top, appId, AppValue(EmptyObject))
    ELSE top

CacheEnsureApp(r) ==
    /\ pc[r] = "loaded"
    /\ \E appId \in AppIds :
         /\ run' = [run EXCEPT ![r].appId = appId]
         /\ pomCache' = EnsuredCache(pomCache, appId)
    /\ pc' = [pc EXCEPT ![r] = "connected"]
    /\ UNCHANGED <<probe, files, POM_FILE_PATH, lastSave, call, driver, localCache,
                   emitted, log>>

\* executeCommand: appSelectorCache[finalCacheKey] = finalSelector; saveCache()
CachePut(r) ==
    /\ pc[r] = "connected"
    /\ probe.count < MaxMutations
    /\ \E key \in PutKeys, selector \in PutSelectors, outcome \in WriteOutcomes :
         /\ WriteCacheAndSave(r, Set(CacheOf(r), key, selector), outcome)
         /\ probe' = [fn |-> "put", in |-> run[r].appId, key |-> key, out |-> selector,
                      platform |-> POM_FILE_PATH, saved |-> (outcome = "ok"),
                      reloaded |-> FALSE, overPut |-> FALSE,
                      count |-> probe.count + 1]
    /\ UNCHANGED <<POM_FILE_PATH, pc, run, call, driver, emitted, log>>

\* executeCommand: delete appSelectorCache[cacheKey]; saveCache()
CacheInvalidate(r) ==
    /\ pc[r] = "connected"
    /\ probe.count < MaxMutations
    /\ \E key \in PutKeys, outcome \in WriteOutcomes :
         /\ Has(CacheOf(r), key)
         /\ WriteCacheAndSave(r, Delete(CacheOf(r), key), outcome)
         /\ probe' = [fn |-> "invalidate", in |-> run[r].appId, key |-> key,
                      out |-> Undefined, platform |-> POM_FILE_PATH,
                      saved |-> (outcome = "ok"), reloaded |-> FALSE,
                      overPut |-> (probe.fn = "put" /\ probe.key = key
                                     /\ probe.in = run[r].appId),
                      count |-> probe.count + 1]
    /\ UNCHANGED <<POM_FILE_PATH, pc, run, call, driver, emitted, log>>

NextCache ==
    \/ CacheLoad(1)
    \/ CacheEnsureApp(1)
    \/ CachePut(1)
    \/ CacheInvalidate(1)

SpecCache == InitCache /\ [][NextCache]_vars

\* reading key k of application appId: pomCache[appId][k]
ReadEntry(appId, key) == Get(AppEntries(pomCache, appId), key)

\* the latest mutation is in force: the file of its platform is the current
\* one, and either nothing was loaded since or its write reached the file
MutationInForce ==
    /\ probe.fn \in {"put", "invalidate"}
    /\ POM_FILE_PATH = probe.platform
    /\ probe.saved \/ ~probe.reloaded

LegacyKeys(entries) ==
    {n \in 1..Len(entries) : Len(Split(entries[n].k, KEY_SEPARATOR)) = 2}

\* C6 as stated: after loadCache, no application of the cache holds an entry
\* under a two-part key.
C6_AsStated ==
    (pc[1] = "loaded") =>
        \A n \in 1..Len(pomCache) :
            pomCache[n].v.kind = "app" => LegacyKeys(pomCache[n].v.entries) = {}

----------------------------------------------------------------------------
(* command_utils.js: executeTest, the recognition of structural steps *)

STEP_LAUNCH == <<"L", "a", "u", "n", "c", "h", " ", "t", "h", "e", " ", "a", "p", "p">>
STEP_WAIT_WEBVIEW == <<"W", "a", "i", "t", " ", "f", "o", "r", " ", "a", "p", "p", " ", "t", "o", " ", "l", "o", "a", "d", " ", "w", "e", "b", "v", "i", "e", "w">>
STEP_WAIT_NATIVE == <<"W", "a", "i", "t", " ", "f", "o", "r", " ", "a", "p", "p", " ", "t", "o", " ", "l", "o", "a", "d", " ", "n", "a", "t", "i", "v", "e", " ", "v", "i", "e", "w">>
STEP_WAIT_LOGIN == <<"W", "a", "i", "t", " ", "f", "o", "r", " ", "a", "p", "p", " ", "t", "o", " ", "l", "o", "a", "d", " ", "t", "h", "e", " ", "L", "o", "g", "i", "n", " ", "p", "a", "g", "e">>
STEP_WAIT == <<"W", "a", "i", "t", " ", "f", "o", "r", " ", "a", "p", "p", " ", "t", "o", " ", "l", "o", "a", "d">>
STEP_BLANK == <<" ", " ">>
\* "Wait for app to load the  page": the label between 'the ' and ' page' is empty
STEP_WAIT_EMPTY == <<"W", "a", "i", "t", " ", "f", "o", "r", " ", "a", "p", "p", " ", "t", "o", " ", "l", "o", "a", "d", " ", "t", "h", "e", " ", " ", "p", "a", "g", "e">>
\* "Launch the app, wait for app to load"
STEP_LAUNCH_WAIT == <<"L", "a", "u", "n", "c", "h", " ", "t", "h", "e", " ", "a", "p", "p", ",", " ", "w", "a", "i", "t", " ", "f", "o", "r", " ", "a", "p", "p", " ", "t", "o", " ", "l", "o", "a", "d">>

TEXT_LAUNCH == <<"l", "a", "u", "n", "c", "h", " ", "t", "h", "e", " ", "a", "p", "p">>
TEXT_WAIT == <<"w", "a", "i", "t", " ", "f", "o", "r", " ", "a", "p", "p", " ", "t", "o", " ", "l", "o", "a", "d">>
TEXT_WEBVIEW == <<"w", "e", "b", "v", "i", "e", "w">>
TEXT_NATIVE_VIEW == <<"n", "a", "t", "i", "v", "e", " ", "v", "i", "e", "w">>
TEXT_NATIVE == <<"n", "a", "t", "i", "v", "e">>
TEXT_WAIT_THE == <<"w", "a", "i", "t", " ", "f", "o", "r", " ", "a", "p", "p", " ", "t", "o", " ", "l", "o", "a", "d", " ", "t", "h", "e", " ">>
TEXT_PAGE == <<" ", "p", "a", "g", "e">>

\* s.substring(from - 1, to) in the 1-based positions of the model
Slice(s, from, to) == [n \in 1..(to - from + 1) |-> s[from + n - 1]]

\* the positions at which sub occurs in s
PositionsOf(s, sub) ==
    {p \in 1..(Len(s) - Len(sub) + 1) : Slice(s, p, p + Len(sub) - 1) = sub}

\* step.match(/wait for app to load the (.*) page/i): the captured group of
\* the leftmost match, taken greedily, or Null when the text does not match
PageLabelMatch(step) ==
    LET lower == ToLowerCase(step)
        starts == {p \in PositionsOf(lower, TEXT_WAIT_THE) :
                      \E q \in PositionsOf(lower, TEXT_PAGE) : q >= p + Len(TEXT_WAIT_THE)}
    IN  IF starts = {} THEN Null
        ELSE LET p == Min(starts)
                 q == Max({x \in PositionsOf(lower, TEXT_PAGE) : x >= p + Len(TEXT_WAIT_THE)})
             IN  Slice(step, p + Len(TEXT_WAIT_THE), q - 1)

\* currentPageName after a page-load wait step
PageNameAfter(current, step) ==
    LET label == PageLabelMatch(step)
    IN  IF label # Null /\ label # <<>> THEN ToLowerCase(Trim(label)) ELSE current

\* faulty variant of StepKind: the page-load wait is recognised first
StepKind_WaitFirst(step) ==
    LET lowerCaseStep == ToLowerCase(step)
    IN  IF Includes(lowerCaseStep, TEXT_WAIT)
        THEN IF Includes(lowerCaseStep, TEXT_WEBVIEW) THEN "wait_webview"
             ELSE IF Includes(lowerCaseStep, TEXT_NATIVE_VIEW)
                     \/ Includes(lowerCaseStep, TEXT_NATIVE) THEN "wait_native"
             ELSE "wait_page"
        ELSE IF Includes(lowerCaseStep, TEXT_LAUNCH) THEN "launch"
        ELSE "ordinary"

\* the branch of the step loop a step text takes
StepKind(step) ==
    LET lowerCaseStep == ToLowerCase(step)
    IN  IF Includes(lowerCaseStep, TEXT_LAUNCH) THEN "launch"
        ELSE IF Includes(lowerCaseStep, TEXT_WAIT)
        THEN IF Includes(lowerCaseStep, TEXT_WEBVIEW) THEN "wait_webview"
             ELSE IF Includes(lowerCaseStep, TEXT_NATIVE_VIEW)
                     \/ Includes(lowerCaseStep, TEXT_NATIVE) THEN "wait_native"
             ELSE "wait_page"
        ELSE "ordinary"

\* faulty variant of NonBlankLines: the blank lines are steps too
NonBlankLines_All(lines) == lines

\* rawStepsText.split('\n').filter((s) => s.trim() !== ''), on the lines of
\* the text
NonBlankLines(lines) == SelectSeq(lines, LAMBDA s : Trim(s) # <<>>)

\* Object.keys(appSelectorCache).find((k) => k.startsWith(prefix)): the first
\* key in insertion order, Undefined when there is none
FindKeyWithPrefix(cache, prefix) ==
    LET hits == {n \in 1..Len(cache) : StartsWith(cache[n].k, prefix)}
    IN  IF hits = {} THEN Undefined ELSE cache[Min(hits)].k

\* `${currentPageName} - ${elementName} -`
KeyPrefix(page, element) ==
    page \o KEY_SEPARATOR \o element \o <<" ", "-">>

\* socket events
StepUpdate(stepNumber, status) ==
    [type |-> "step-update", stepNumber |-> stepNumber, status |-> status]
TestComplete == [type |-> "test-complete", stepNumber |-> 0, status |-> "none"]
TestError == [type |-> "test-error", stepNumber |-> 0, status |-> "none"]

----------------------------------------------------------------------------
(* command_utils.js: executeTest *)

\* the lines of rawStepsText a run may be given: at most MaxSteps lines
MaxSteps == 2

StepTexts ==
    {STEP_LAUNCH, STEP_WAIT_WEBVIEW, STEP_WAIT_NATIVE, STEP_WAIT_LOGIN, STEP_WAIT,
     STEP_TAP_MARKED, STEP_BLANK, STEP_LAUNCH_WAIT, STEP_WAIT_EMPTY}

StepLists == UNION {[1..n -> StepTexts] : n \in 0..MaxSteps}

\* StepKind, PageNameAfter and extractElementName on the step texts of the
\* model, computed once
StepKindOf == [s \in StepTexts |-> StepKind(s)]
PageNameAfterOf == [current \in Pages, s \in StepTexts |-> PageNameAfter(current, s)]
ElementNameOf == [s \in StepTexts |-> extractElementName(s)]

TestEnvironments == {"local", "browserstack"}

\* the iterations of the polling loop of switchToWebview before its timeout
MaxPolls == 2

\* what browser.getContexts() may answer
ContextLists == {<<NATIVE_APP>>, <<NATIVE_APP, WEBVIEW_EXAMPLE>>}

\* faulty variant of FindWebview: the first context listed, whatever its name
FindWebview_First(contexts) == contexts[1]

\* contexts.find((ctx) => ctx && ctx.startsWith('WEBVIEW'))
FindWebview(contexts) ==
    LET hits == {n \in 1..Len(contexts) :
                    Truthy(contexts[n]) /\ StartsWith(contexts[n], WEBVIEW_PREFIX)}
    IN  IF hits = {} THEN Undefined ELSE contexts[Min(hits)]

\* faulty variant of AfterStepFailure: the loop goes on after a failed step
AfterStepFailure_Continue == "loop"

\* catch (stepError): the error is thrown again and leaves the step loop
AfterStepFailure == "finally"

\* faulty variant of WaitOutcomeOnError: a failing wait fails the step
WaitOutcomeOnError_Propagates == "failed"

\* catch (waitErr) of the page-load wait: logged, the step goes on
WaitOutcomeOnError == "passed"

CurrentStep(r) == run[r].allSteps[run[r].i]

\* emit 'passed' and continue with the next step; newRun holds the locals
StepPassed(r, newRun) ==
    /\ emitted' = [emitted EXCEPT ![r] = Append(@, StepUpdate(run[r].i, "passed"))]
    /\ run' = [run EXCEPT ![r] = [newRun EXCEPT !.i = @ + 1, !.polls = 0,
                                                !.ret = "none",
                                                !.nextSelector = Undefined,
                                                !.commandResponse = NoResponse]]
    /\ pc' = [pc EXCEPT ![r] = "loop"]

\* catch (stepError): emit 'failed', throw; the outer catch emits test-error
StepFailed(r, newRun) ==
    /\ emitted' = [emitted EXCEPT ![r] =
                      @ \o <<StepUpdate(run[r].i, "failed"), TestError>>]
    /\ run' = [run EXCEPT ![r] = [newRun EXCEPT !.polls = 0, !.ret = "none",
                                                !.nextSelector = Undefined,
                                                !.commandResponse = NoResponse]]
    /\ pc' = [pc EXCEPT ![r] = AfterStepFailure]

StepEnds(r, status, newRun) ==
    IF status = "passed" THEN StepPassed(r, newRun) ELSE StepFailed(r, newRun)

\* loadCache replaces every object of pomCache: the appSelectorCache of the
\* other runs in progress keeps referring to the object it was given
DetachedByLoad(r) ==
    [r2 \in Runs |->
        IF r2 = r THEN NotDetached
        ELSE IF run[r2].browser /\ ~localCache[r2].detached
             THEN Detached(AppEntries(pomCache, run[r2].appId))
             ELSE localCache[r2]]

\* executeTest(appPath, rawStepsText, ..., platform): loadCache(targetPlatform)
StartRunWith(r, lists) ==
    /\ pc[r] = "idle"
    /\ \E platform \in Platforms, lines \in lists, outcome \in WriteOutcomes :
         /\ LoadCache(platform, outcome)
         /\ run' = [run EXCEPT ![r] =
                       [IdleRun EXCEPT !.platform = platform, !.rawSteps = lines]]
    /\ localCache' = DetachedByLoad(r)
    /\ pc' = [pc EXCEPT ![r] = "connect"]
    /\ UNCHANGED <<probe, call, driver, emitted, log>>

StartRun(r) ==
    StartRunWith(r, StepLists)

\* the capabilities, remote(), appId, pomCache[appId], allSteps
Connect(r) ==
    /\ pc[r] = "connect"
    /\ \E testEnvironment \in TestEnvironments :
         \/ \* uploadToBrowserStack or remote() throws, or iOS is asked for locally
            /\ emitted' = [emitted EXCEPT ![r] = Append(@, TestError)]
            /\ pc' = [pc EXCEPT ![r] = "finally"]
            /\ UNCHANGED <<pomCache, run, driver>>
         \/ /\ ~(testEnvironment = "local" /\ run[r].platform = "ios")
            /\ \E appId \in AppIds :
                 /\ pomCache' = EnsuredCache(pomCache, appId)
                 /\ run' = [run EXCEPT ![r].browser = TRUE,
                                       ![r].appId = appId,
                                       ![r].allSteps = NonBlankLines(run[r].rawSteps),
                                       ![r].i = 1,
                                       ![r].currentPageName = PAGE_INITIAL,
                                       ![r].activeContext = "native"]
            /\ driver' = [driver EXCEPT ![r] = IdleDriver]
            /\ pc' = [pc EXCEPT ![r] = "loop"]
            /\ UNCHANGED emitted
    /\ UNCHANGED <<probe, files, POM_FILE_PATH, lastSave, call, localCache, log>>

\* where the step loop first waits on a step of the given kind
FirstWait(kind, activeContext) ==
    CASE kind = "launch" -> "launch"
      [] kind = "wait_webview" -> "sw_poll"
      [] kind = "wait_native" -> "wait_native"
      [] kind = "wait_page" -> "wait_page"
      [] kind = "ordinary" -> IF activeContext = "webview" THEN "sw_poll" ELSE "ord_native"

\* for (let i = 0; i < allSteps.length; i++): emit 'running', or leave the loop
\* and emit test-complete
LoopHead(r) ==
    /\ pc[r] = "loop"
    /\ IF run[r].i > Len(run[r].allSteps)
       THEN /\ emitted' = [emitted EXCEPT ![r] = Append(@, TestComplete)]
            /\ pc' = [pc EXCEPT ![r] = "finally"]
            /\ UNCHANGED <<run, call>>
       ELSE LET kind == StepKindOf[CurrentStep(r)] IN
            /\ emitted' = [emitted EXCEPT ![r] = Append(@, StepUpdate(run[r].i, "running"))]
            /\ pc' = [pc EXCEPT ![r] = FirstWait(kind, run[r].activeContext)]
            /\ run' = [run EXCEPT ![r].polls = 0,
                                  ![r].ret = IF kind = "wait_webview" THEN "wait"
                                             ELSE IF kind = "ordinary" THEN "pre"
                                             ELSE "none"]
            /\ call' = [call EXCEPT ![r] = NoCall]
    /\ log' = [log EXCEPT ![r] = <<>>]
    /\ CacheUnchanged
    /\ UNCHANGED <<probe, POM_FILE_PATH, driver>>

\* 'launch the app': browser.pause(2000), 'passed'
LaunchStep(r) ==
    /\ pc[r] = "launch"
    /\ StepPassed(r, run[r])
    /\ CacheUnchanged
    /\ UNCHANGED <<probe, POM_FILE_PATH, call, driver, log>>

----------------------------------------------------------------------------
(* context_utils.js and the steps of executeTest that use it *)

\* switchToNative: getContext, then switchContext('NATIVE_APP') when another
\* context is current; either call may throw
NativeOutcomes == {"ok", "threw"}

\* faulty variant of DriverInNative: the driver stays in its context
DriverInNative_Unswitched(r) == driver

DriverInNative(r) == [driver EXCEPT ![r].context = NATIVE_APP]

\* what follows a switchToWebview call that returned
WebviewFound(r) ==
    CASE run[r].ret = "wait" ->
             \* activeContext = 'webview', 'passed'
             StepPassed(r, [run[r] EXCEPT !.activeContext = "webview"])
      [] run[r].ret = "pre" ->
             /\ run' = [run EXCEPT ![r].polls = 0, ![r].ret = "none"]
             /\ pc' = [pc EXCEPT ![r] = "ord_translate"]
             /\ UNCHANGED emitted
      [] run[r].ret = "post" ->
             StepPassed(r, run[r])

\* the switchToNative call of the catch block of switchToWebview
FallbackLogged(r, native) ==
    log' = [log EXCEPT ![r] =
               Append(@, LogEntry("switchToNative", NATIVE_APP, "fallback", native = "ok"))]

\* faulty variant of WebviewTimedOut: the timeout fails the step
WebviewTimedOut_Fails(r) ==
    /\ StepFailed(r, run[r])
    /\ UNCHANGED <<driver, log>>

\* what follows the timeout of switchToWebview: the wait step fails; an
\* ordinary step falls back to switchToNative and activeContext = 'native'
WebviewTimedOut(r) ==
    CASE run[r].ret = "wait" ->
             /\ StepFailed(r, run[r])
             /\ UNCHANGED <<driver, log>>
      [] run[r].ret = "pre" ->
             \E native \in NativeOutcomes :
               /\ FallbackLogged(r, native)
               /\ IF native = "ok"
                  THEN /\ driver' = DriverInNative(r)
                       /\ run' = [run EXCEPT ![r].polls = 0, ![r].ret = "none",
                                             ![r].activeContext = "native"]
                       /\ pc' = [pc EXCEPT ![r] = "ord_translate"]
                       /\ UNCHANGED emitted
                  ELSE /\ StepFailed(r, run[r])
                       /\ UNCHANGED driver
      [] run[r].ret = "post" ->
             \E native \in NativeOutcomes :
               /\ FallbackLogged(r, native)
               /\ IF native = "ok"
                  THEN /\ driver' = DriverInNative(r)
                       /\ StepPassed(r, [run[r] EXCEPT !.activeContext = "native"])
                  ELSE /\ StepFailed(r, run[r])
                       /\ UNCHANGED driver

\* switchToWebview, one iteration of the polling loop: getContexts, find,
\* getContext, switchContext inside the try block; an iteration that does not
\* return pauses 500 ms, and the loop ends once the timeout has passed
SwitchToWebviewPoll(r) ==
    /\ pc[r] = "sw_poll"
    /\ \/ \E contexts \in ContextLists :
            LET webviewContext == FindWebview(contexts) IN
            /\ webviewContext # Undefined
            /\ driver' = [driver EXCEPT ![r].context = webviewContext]
            /\ WebviewFound(r)
            /\ UNCHANGED log
       \/ \* getContexts, getContext or switchContext throws, or no WEBVIEW
          \* context is listed; the loop goes on
          /\ run[r].polls + 1 < MaxPolls
          /\ run' = [run EXCEPT ![r].polls = @ + 1]
          /\ UNCHANGED <<pc, driver, emitted, log>>
       \/ \* the same, and the timeout has passed
          WebviewTimedOut(r)
    /\ CacheUnchanged
    /\ UNCHANGED <<probe, POM_FILE_PATH, call>>

\* faulty variant of WaitNativeStep: activeContext is not assigned
WaitNativeStep_Keeps(r) ==
    /\ pc[r] = "wait_native"
    /\ \E native \in NativeOutcomes :
         IF native = "ok"
         THEN /\ driver' = DriverInNative(r)
              /\ StepPassed(r, run[r])
         ELSE /\ StepFailed(r, run[r])
              /\ UNCHANGED driver
    /\ CacheUnchanged
    /\ UNCHANGED <<probe, POM_FILE_PATH, call, log>>

\* 'wait for app to load native view': switchToNative, activeContext = 'native'
WaitNativeStep(r) ==
    /\ pc[r] = "wait_native"
    /\ \E native \in NativeOutcomes :
         IF native = "ok"
         THEN /\ driver' = DriverInNative(r)
              /\ StepPassed(r, [run[r] EXCEPT !.activeContext = "native"])
         ELSE /\ StepFailed(r, run[r])
              /\ UNCHANGED driver
    /\ CacheUnchanged
    /\ UNCHANGED <<probe, POM_FILE_PATH, call, log>>

\* an ordinary step while activeContext is 'native': switchToNative
OrdSwitchNative(r) ==
    /\ pc[r] = "ord_native"
    /\ \E native \in NativeOutcomes :
         IF native = "ok"
         THEN /\ driver' = DriverInNative(r)
              /\ pc' = [pc EXCEPT ![r] = "ord_translate"]
              /\ UNCHANGED <<run, emitted>>
         ELSE /\ StepFailed(r, run[r])
              /\ UNCHANGED driver
    /\ CacheUnchanged
    /\ UNCHANGED <<probe, POM_FILE_PATH, call, log>>

\* faulty variant of OrdTranslate: a throwing translation is healed, the
\* placeholder command is handed to executeCommand
OrdTranslate_Heals(r) ==
    /\ pc[r] = "ord_translate"
    /\ \/ /\ EnterCommand(r, Placeholder, run[r].currentPageName, CurrentStep(r))
          /\ UNCHANGED <<run, emitted>>
       \/ \E response \in TranslationResponses :
            /\ EnterCommand(r, CommandToExecute(response), run[r].currentPageName,
                            CurrentStep(r))
            /\ run' = [run EXCEPT ![r].commandResponse = response,
                                  ![r].translateCalls = Append(@, CurrentStep(r))]
            /\ UNCHANGED emitted
    /\ CacheUnchanged
    /\ UNCHANGED <<probe, POM_FILE_PATH, driver, log>>

\* getPageSource, translateStepsToCommands, the normalisation of the response
\* and the call of executeCommand up to its first await
OrdTranslate(r) ==
    /\ pc[r] = "ord_translate"
    /\ \/ \* getPageSource or translateStepsToCommands throws
          /\ StepFailed(r, run[r])
          /\ UNCHANGED call
       \/ \E response \in TranslationResponses :
            /\ EnterCommand(r, CommandToExecute(response), run[r].currentPageName,
                            CurrentStep(r))
            /\ run' = [run EXCEPT ![r].commandResponse = response,
                                  ![r].translateCalls = Append(@, CurrentStep(r))]
            /\ UNCHANGED emitted
    /\ CacheUnchanged
    /\ UNCHANGED <<probe, POM_FILE_PATH, driver, log>>

\* executeCommand returned: the surface is asserted again, then 'passed'
OrdAfterCommand(r) ==
    /\ pc[r] = "cmd_returned"
    /\ IF run[r].activeContext = "webview"
       THEN /\ run' = [run EXCEPT ![r].polls = 0, ![r].ret = "post"]
            /\ pc' = [pc EXCEPT ![r] = "sw_poll"]
            /\ UNCHANGED <<driver, emitted>>
       ELSE \E native \in NativeOutcomes :
              IF native = "ok"
              THEN /\ driver' = DriverInNative(r)
                   /\ StepPassed(r, run[r])
              ELSE /\ StepFailed(r, run[r])
                   /\ UNCHANGED driver
    /\ log' = [log EXCEPT ![r] = <<>>]
    /\ CacheUnchanged
    /\ UNCHANGED <<probe, POM_FILE_PATH, call>>

\* executeCommand threw: the step fails
OrdCommandThrew(r) ==
    /\ pc[r] = "cmd_threw"
    /\ StepFailed(r, run[r])
    /\ log' = [log EXCEPT ![r] = <<>>]
    /\ CacheUnchanged
    /\ UNCHANGED <<probe, POM_FILE_PATH, driver, call>>

----------------------------------------------------------------------------
(* executeTest: the page-load wait step *)

\* allSteps[i + 1], Undefined after the last step
NextStepOf(r) ==
    IF run[r].i + 1 <= Len(run[r].allSteps) THEN run[r].allSteps[run[r].i + 1]
    ELSE Undefined

\* the page label, the look-up of the next step's element by key prefix and
\* the wait on the cached selector
WaitPage(r) ==
    /\ pc[r] = "wait_page"
    /\ LET page == PageNameAfterOf[run[r].currentPageName, CurrentStep(r)]
           named == [run[r] EXCEPT !.currentPageName = page]
           nextStep == NextStepOf(r)
           prefix == KeyPrefix(page, ElementNameOf[nextStep])
           cacheKey == FindKeyWithPrefix(CacheOf(r), prefix)
           cachedSelector == Get(CacheOf(r), cacheKey)
       IN  IF ~Truthy(nextStep)
           THEN /\ StepPassed(r, named)
                /\ CacheUnchanged
           ELSE IF ~Truthy(cacheKey)
           THEN /\ run' = [run EXCEPT ![r] = named]
                /\ pc' = [pc EXCEPT ![r] = "wait_ai"]
                /\ UNCHANGED emitted
                /\ CacheUnchanged
           ELSE \/ \* findElement and waitForDisplayed succeed
                   /\ IF Truthy(cachedSelector)
                      THEN StepPassed(r, named)
                      ELSE /\ run' = [run EXCEPT ![r] = named]
                           /\ pc' = [pc EXCEPT ![r] = "wait_ai"]
                           /\ UNCHANGED emitted
                   /\ CacheUnchanged
                \/ \* they throw: the entry is deleted and the cache saved
                   \E outcome \in WriteOutcomes :
                     /\ WriteCacheAndSave(r, Delete(CacheOf(r), cacheKey), outcome)
                     /\ run' = [run EXCEPT ![r] = named]
                     /\ pc' = [pc EXCEPT ![r] = "wait_ai"]
                     /\ UNCHANGED emitted
    /\ UNCHANGED <<probe, POM_FILE_PATH, call, driver, log>>

\* waitForPageStability and translateStepsToCommands for the next step
WaitPageTranslate(r) ==
    /\ pc[r] = "wait_ai"
    /\ \/ \* one of them throws: logged, then the 3 second pause
          StepPassed(r, run[r])
       \/ \E response \in TranslationResponses :
            LET nextSelector == NextSelector(response)
                called == [run[r] EXCEPT !.translateCalls = Append(@, NextStepOf(r))]
            IN  IF Truthy(nextSelector)
                THEN /\ run' = [run EXCEPT ![r] =
                                   [called EXCEPT !.nextSelector = nextSelector]]
                     /\ pc' = [pc EXCEPT ![r] = "wait_find"]
                     /\ UNCHANGED emitted
                ELSE StepPassed(r, called)
    /\ CacheUnchanged
    /\ UNCHANGED <<probe, POM_FILE_PATH, call, driver, log>>

\* the entry the wait step writes for the next step's element
WaitEntryKey(r) ==
    CacheKey(run[r].currentPageName, ElementNameOf[NextStepOf(r)],
             determineLocatorStrategy(run[r].nextSelector))

\* findElement(nextSelector) and waitForDisplayed; on success the selector is
\* cached and saved, on failure the step pauses 3 seconds
WaitPageFind(r) ==
    /\ pc[r] = "wait_find"
    /\ \/ \E outcome \in WriteOutcomes :
            /\ WriteCacheAndSave(r, Set(CacheOf(r), WaitEntryKey(r), run[r].nextSelector),
                                 outcome)
            /\ StepPassed(r, run[r])
       \/ /\ StepEnds(r, WaitOutcomeOnError, run[r])
          /\ CacheUnchanged
    /\ UNCHANGED <<probe, POM_FILE_PATH, call, driver, log>>

\* a call of the finally block, and whether it threw into executeTest
CleanupCall(fn, threw) == [fn |-> fn, threw |-> threw]

\* the calls of the finally block: saveCache() inside its own try, then
\* browser.deleteSession() when a session exists
CleanupCalls(browser, closed) ==
    IF browser
    THEN <<CleanupCall("saveCache", FALSE),
           CleanupCall("deleteSession", closed = "rejected")>>
    ELSE <<CleanupCall("saveCache", FALSE)>>

\* the finally block without deleteSession after test-error
Finally_Leaks(r) ==
    /\ pc[r] = "finally"
    /\ \E outcome \in WriteOutcomes : SaveCache(pomCache, outcome)
    /\ LET failing == emitted[r][Len(emitted[r])].type = "test-error" IN
       \E closed \in {"done", "rejected"} :
         /\ (closed = "rejected") => run[r].browser /\ ~failing
         /\ pc' = [pc EXCEPT ![r] = closed]
         /\ run' = [run EXCEPT ![r].browser = FALSE,
                               ![r].cleanup = CleanupCalls(run[r].browser /\ ~failing,
                                                           closed)]
    /\ UNCHANGED <<probe, POM_FILE_PATH, pomCache, call, driver, localCache, emitted, log>>

\* finally: saveCache(), then browser.deleteSession() when a session exists;
\* a throwing deleteSession rejects the promise of executeTest
Finally(r) ==
    /\ pc[r] = "finally"
    /\ \E outcome \in WriteOutcomes : SaveCache(pomCache, outcome)
    /\ \E closed \in {"done", "rejected"} :
         /\ (closed = "rejected") => run[r].browser
         /\ pc' = [pc EXCEPT ![r] = closed]
         /\ run' = [run EXCEPT ![r].browser = FALSE,
                               ![r].cleanup = CleanupCalls(run[r].browser, closed)]
    /\ UNCHANGED <<probe, POM_FILE_PATH, pomCache, call, driver, localCache, emitted, log>>

\* a run of executeTest
RunStep(r) ==
    \/ StartRun(r)
    \/ Connect(r)
    \/ LoopHead(r)
    \/ LaunchStep(r)
    \/ SwitchToWebviewPoll(r)
    \/ WaitNativeStep(r)
    \/ WaitPage(r)
    \/ WaitPageTranslate(r)
    \/ WaitPageFind(r)
    \/ OrdSwitchNative(r)
    \/ OrdTranslate(r)
    \/ ExecuteCommandStep(r)
    \/ OrdAfterCommand(r)
    \/ OrdCommandThrew(r)
    \/ Finally(r)

Init ==
    /\ probe = IdleProbe
    /\ files \in [Platforms -> {FileMissing, FileJson(DOC_NESTED)}]
    /\ POM_FILE_PATH = NoPath
    /\ pomCache = EmptyObject
    /\ lastSave = "none"
    /\ pc = [r \in Runs |-> "idle"]
    /\ run = [r \in Runs |-> IdleRun]
    /\ call = [r \in Runs |-> NoCall]
    /\ driver = [r \in Runs |-> IdleDriver]
    /\ localCache = [r \in Runs |-> NotDetached]
    /\ emitted = [r \in Runs |-> <<>>]
    /\ log = [r \in Runs |-> <<>>]

Next == RunStep(1)

Spec == Init /\ [][Next]_vars

----------------------------------------------------------------------------
(* Properties of a run of executeTest, under Spec *)

\* the step-update events of a run, in the order of emission
StepUpdates(r) == SelectSeq(emitted[r], LAMBDA e : e.type = "step-update")

\* running 1, passed 1, ..., running k, failed k
UpdatesOfFailureAt(k) ==
    [m \in 1..(2 * k) |->
        IF m % 2 = 1 THEN StepUpdate((m + 1) \div 2, "running")
        ELSE StepUpdate(m \div 2, IF m = 2 * k THEN "failed" ELSE "passed")]

HasUpdate(r, k, status) ==
    \E n \in 1..Len(emitted[r]) : emitted[r][n] = StepUpdate(k, status)

RunEnded(r) == pc[r] \in {"done", "rejected"}

\* C1: when a step-update 'failed' was emitted for step k, the step-update
\* events of the run are exactly running and passed for the steps 1..k-1
\* followed by running and failed for step k: no event of any status is ever
\* emitted for the steps k+1..N.
C1_FailFast ==
    \A n \in 1..Len(emitted[1]) :
        emitted[1][n].status = "failed" =>
            /\ emitted[1][n].stepNumber \in 1..Len(run[1].allSteps)
            /\ StepUpdates(1) = UpdatesOfFailureAt(emitted[1][n].stepNumber)

\* the run ended after its first step failed, with a step left unprocessed
C1_Witness ==
    /\ RunEnded(1)
    /\ \E k \in 1..Len(run[1].allSteps) :
         /\ HasUpdate(1, k, "failed")
         /\ k < Len(run[1].allSteps)
         /\ StepKind(run[1].allSteps[k + 1]) = "ordinary"

\* the top-level object without the applications that have no entry
Normalised(top) ==
    SelectSeq(top, LAMBDA e : ~(e.v.kind = "app" /\ e.v.entries = EmptyObject))

\* the cache a loadCache of the current file would give equals the cache in
\* memory, up to applications without entries
DurableCopyIsCurrent ==
    Normalised(LoadedCache(files[POM_FILE_PATH])) = Normalised(pomCache)

WaitKinds == {"wait_page", "wait_webview", "wait_native"}

\* C9 as stated: no step whose text signals a page-load wait, the variants
\* naming a surface included, ends 'failed'.
C9_AsStated ==
    \A k \in 1..Len(run[1].allSteps) :
        StepKind(run[1].allSteps[k]) \in WaitKinds => ~HasUpdate(1, k, "failed")

\* C9: a page-load wait step that names neither the webview nor the native
\* surface never ends 'failed', and once the run is past it, it has ended
\* 'passed', whatever the driver, the cache and the translation did.
C9_PageWaitAlwaysPasses ==
    \A k \in 1..Len(run[1].allSteps) :
        StepKind(run[1].allSteps[k]) = "wait_page" =>
            /\ ~HasUpdate(1, k, "failed")
            /\ (run[1].i > k) => HasUpdate(1, k, "passed")

\* the first step waited for the Login page, the cached selector of the next
\* step's element did not resolve and was deleted, and the step passed
C9_Witness ==
    /\ pc[1] = "loop"
    /\ run[1].i = 2
    /\ run[1].allSteps = <<STEP_WAIT_LOGIN, STEP_TAP_MARKED>>
    /\ run[1].appId = APP_EXAMPLE
    /\ HasUpdate(1, 1, "passed")
    /\ AppEntries(pomCache, APP_EXAMPLE) = EmptyObject
    /\ lastSave = "failed"

----------------------------------------------------------------------------
(* Properties of the classifier's rules, under SpecPure *)

CSS_PREFIX == <<"c", "s", "s", "=">>

EndsWith(s, suffix) ==
    Len(s) >= Len(suffix) /\ SubSeq(s, Len(s) - Len(suffix) + 1, Len(s)) = suffix

\* a selector with the css= prefix that no earlier rule of the classifier takes
CssOnly(s) ==
    /\ Truthy(s)
    /\ StartsWith(s, CSS_PREFIX)
    /\ ~Includes(s, ID_SEPARATOR)
    /\ ~Includes(s, STRAT_RESOURCE)

\* C11 as stated: a selector with the css= prefix that no earlier rule takes
\* is classified as css, and its cache key ends in "- css".
C11_AsStated ==
    (Classified /\ CssOnly(probe.in)) =>
        /\ probe.out = STRAT_CSS
        /\ EndsWith(CacheKey(PAGE_LOGIN, ELEMENT_LOGIN, probe.out),
                    <<"-", " ">> \o STRAT_CSS)

\* C11: the classifier has no rule for the css= prefix: a selector with that
\* prefix that holds neither ":id/" nor "resource-id" is classified as
\* unknown, and its cache key ends in "- unknown".
C11_CssIsUnknown ==
    (Classified /\ CssOnly(probe.in)) =>
        /\ probe.out = STRAT_UNKNOWN
        /\ EndsWith(CacheKey(PAGE_LOGIN, ELEMENT_LOGIN, probe.out),
                    <<"-", " ">> \o STRAT_UNKNOWN)

\* "css=.btn" has been classified
C11_Witness == Classified /\ probe.in = SEL_CSS_BTN /\ probe.out = STRAT_UNKNOWN

\* C12 as stated: a selector that begins with "//" or "(" and holds no ":id/"
\* is classified as xpath, also when it names the attribute resource-id.
C12_AsStated ==
    (/\ Classified
     /\ Truthy(probe.in)
     /\ StartsWith(probe.in, <<"/", "/">>) \/ StartsWith(probe.in, <<"(">>)
     /\ ~Includes(probe.in, ID_SEPARATOR)) => probe.out = STRAT_XPATH

----------------------------------------------------------------------------
(* Properties of extractElementName, under SpecPure *)

Extracted == probe.fn = "extractElementName" /\ probe.out # Pending

\* the spans *...* of a text: an asterisk, one or more characters that are
\* no asterisk, an asterisk
Spans(s) ==
    {<<k, q>> \in (1..Len(s)) \X (1..Len(s)) :
        /\ k + 1 < q
        /\ s[k] = "*"
        /\ s[q] = "*"
        /\ \A j \in (k + 1)..(q - 1) : s[j] # "*"}

\* the interior of the first span
FirstInterior(s) ==
    LET first == CHOOSE p \in Spans(s) : \A o \in Spans(s) : p[1] <= o[1]
    IN  SubSeq(s, first[1] + 1, first[2] - 1)

\* the text after the last of the given delimiters in the trimmed text
FinalToken(s, delimiters) ==
    LET t == Trim(s)
        cuts == {k \in 1..Len(t) : t[k] \in delimiters}
    IN  IF cuts = {} THEN t ELSE SubSeq(t, Max(cuts) + 1, Len(t))

----------------------------------------------------------------------------
(* Two overlapping runs of executeTest against the module-level cache *)

\* each of the overlapping runs executes one ordinary step
ConcStepLists == {<<STEP_TAP_MARKED>>}

ConcStart(r) ==
    StartRunWith(r, ConcStepLists)

\* the overlapping runs test one application, and their surroundings work:
\* every write of the file succeeds, no step fails, every session closes and
\* the translation answers null or one bare command
ConcEnv ==
    /\ lastSave \in {"none", "ok"}
    /\ \A r \in Runs :
         /\ run[r].appId # APP_UNKNOWN
         /\ run[r].commandResponse.shape \in {"none", "bare", "null"}
         /\ pc[r] \notin {"cmd_threw", "rejected"}
         /\ \A m \in 1..Len(emitted[r]) : emitted[r][m] # TestError

\* the statements of executeTest a run of one ordinary step goes through
\* when the step does not fail
ConcStep(r) ==
    \/ ConcStart(r) /\ ConcEnv'
    \/ Connect(r) /\ ConcEnv'
    \/ LoopHead(r) /\ ConcEnv'
    \/ OrdSwitchNative(r) /\ ConcEnv'
    \/ OrdTranslate(r) /\ ConcEnv'
    \/ ExecuteCommandStep(r) /\ ConcEnv'
    \/ OrdAfterCommand(r) /\ ConcEnv'
    \/ Finally(r) /\ ConcEnv'

\* the runs interleave at every await
NextConc ==
    \E r \in Runs : ConcStep(r)

SpecConc == Init /\ [][NextConc]_vars


----------------------------------------------------------------------------
(* Properties of the shared cache, under SpecConc *)

OtherRun(r) == CHOOSE o \in Runs : o # r

\* the run finished, and its executeCommand call wrote its finalSelector back
WroteBack(r) ==
    /\ pc[r] = "done"
    /\ Truthy(call[r].finalSelector)
    /\ call[r].error = "none"

\* the key of the write-back of the run
WrittenKey(r) == FinalKey(call[r], call[r].finalSelector)

\* the key is one the run looked up (and may have invalidated) or wrote
Touched(o, key) ==
    /\ call[o] # NoCall
    /\ \/ LookupKey(call[o]) = key
       \/ Truthy(call[o].finalSelector) /\ WrittenKey(o) = key

\* both runs were started for one platform and one application and are over
SameTarget ==
    /\ \A r \in Runs : pc[r] = "done" /\ run[r].appId \in AppIds
    /\ run[1].platform = run[2].platform
    /\ run[1].appId = run[2].appId

\* C14 as stated: once two overlapping runs against the same application have
\* finished, a selector that one of them wrote back under a key the other
\* neither wrote nor invalidated is present under that key in the in-memory
\* cache and in the durable file of the platform.
C14_AsStated ==
    \A r \in Runs :
      (SameTarget /\ WroteBack(r) /\ ~Touched(OtherRun(r), WrittenKey(r)))
        => /\ ReadEntry(run[r].appId, WrittenKey(r)) = call[r].finalSelector
           /\ Get(AppEntries(LoadedCache(files[run[r].platform]), run[r].appId),
                  WrittenKey(r)) = call[r].finalSelector

\* the run takes the step
Steps(r) == pc'[r] # pc[r] \/ run'[r] # run[r] \/ call'[r] # call[r]

\* C15 as stated: a step of a run started for platform P changes no durable
\* cache file but the one of P, also when runs for android and for ios overlap.
C15_AsStated ==
    [][\A r \in Runs, p \in Platforms :
         (Steps(r) /\ files'[p] # files[p]) => p = run'[r].platform]_vars


\* the cache of a platform: the one in memory while its file is the current
\* one, else the one a loadCache of its file gives
PlatformCacheOf(path, cache, fs, p) ==
    IF path = p THEN cache ELSE LoadedCache(fs[p])

\* the step removes the entry of the application under the key from the cache
\* of the platform, or replaces its selector
EntryChanged(p, appId, key) ==
    LET before == AppEntries(PlatformCacheOf(POM_FILE_PATH, pomCache, files, p), appId)
        after == AppEntries(PlatformCacheOf(POM_FILE_PATH', pomCache', files', p), appId)
    IN  /\ <<POM_FILE_PATH, pomCache, files>>' # <<POM_FILE_PATH, pomCache, files>>
        /\ Has(before, key)
        /\ Get(after, key) # Get(before, key)

\* the keys of the application in the cache of the platform
EntryKeys(p, appId) ==
    LET entries == AppEntries(PlatformCacheOf(POM_FILE_PATH, pomCache, files, p), appId)
    IN  {entries[n].k : n \in 1..Len(entries)}

\* the key a page-load wait step finds for the element of the next step
WaitLookupKey(r) ==
    FindKeyWithPrefix(CacheOf(r),
        KeyPrefix(PageNameAfterOf[run[r].currentPageName, CurrentStep(r)],
                  ElementNameOf[NextStepOf(r)]))

\* the run deletes the entry because the resolver or the wait on the element
\* failed on the cached selector
InvalidatesUnresolved(r, key) ==
    \/ /\ pc[r] = "cmd_cached"
       /\ key = LookupKey(call[r])
       /\ log'[r] = Append(log[r],
              LogEntry("findElement", call[r].cachedSelector, "cached", FALSE))
    \/ /\ pc[r] = "wait_page"
       /\ pc'[r] = "wait_ai"
       /\ key = WaitLookupKey(r)

\* the run deletes the entry because the click or setValue on the element the
\* cached selector resolved to threw
InvalidatesUnactionable(r, key) ==
    /\ pc[r] = "cmd_cached"
    /\ key = LookupKey(call[r])
    /\ pc'[r] # "cmd_returned"

\* the run writes a selector under the key
WritesKey(r, key) ==
    \/ pc[r] = "cmd_act" /\ Truthy(call[r].finalSelector) /\ key = WrittenKey(r)
    \/ pc[r] = "wait_find" /\ key = WaitEntryKey(r)

----------------------------------------------------------------------------
(* context_utils.js: switchToNative and switchToWebview, one action per
   driver call *)

WEBVIEW_OTHER == <<"W", "E", "B", "V", "I", "E", "W", "_", "2">>

\* the web views the application may bring up
Webviews == {WEBVIEW_EXAMPLE, WEBVIEW_OTHER}

\* the context lists of the device at the first call
DeviceLists == {<<NATIVE_APP>>, <<NATIVE_APP, WEBVIEW_EXAMPLE>>, <<NATIVE_APP, WEBVIEW_OTHER>>}

\* the calls of switchToNative and switchToWebview that are made in a row
MaxCalls == 3

\* browser.pause(500): the time, in pauses, a driver call may take
CallDurations == {0, 1}

\* faulty variant of NeedsSwitch: switchContext whatever the current context
NeedsSwitch_Always(currentContext, target) == TRUE

\* currentContext !== webviewContext, currentContext !== 'NATIVE_APP'
NeedsSwitch(currentContext, target) == currentContext # target

\* probe holds the call under way: the function, the context list of the
\* device, the locals webviewContext and currentContext, how the call ended,
\* and how the call before it ended
NoCtxCall == [fn |-> "none", out |-> "none", context |-> NATIVE_APP]

CtxProbe(contexts) ==
    [fn |-> "none", contexts |-> contexts, webviewContext |-> Undefined,
     currentContext |-> Undefined, out |-> "none", prev |-> NoCtxCall, calls |-> 0]

Elapsed == run[1].polls

\* the context utilities leave the selector cache alone
CtxFrame == CacheUnchanged /\ UNCHANGED <<POM_FILE_PATH, localCache>>

CtxLog(op, arg, ok) == Append(log[1], LogEntry(op, arg, "context", ok))

\* the call ends: it returns, or it throws a driver error or the timeout error
CtxEnds(out) ==
    /\ probe' = [probe EXCEPT !.out = out]
    /\ pc' = [pc EXCEPT ![1] = "ctx_idle"]

InitCtx ==
    /\ probe \in {CtxProbe(contexts) : contexts \in DeviceLists}
    /\ files = [p \in Platforms |-> FileMissing]
    /\ POM_FILE_PATH = NoPath
    /\ pomCache = EmptyObject
    /\ lastSave = "none"
    /\ pc = [r \in Runs |-> "ctx_idle"]
    /\ run = [r \in Runs |-> IdleRun]
    /\ call = [r \in Runs |-> NoCall]
    /\ driver = [r \in Runs |-> IdleDriver]
    /\ localCache = [r \in Runs |-> NotDetached]
    /\ emitted = [r \in Runs |-> <<>>]
    /\ log = [r \in Runs |-> <<>>]

\* await switchToNative(browser) or await switchToWebview(browser, timeout)
CtxCall ==
    /\ pc[1] = "ctx_idle"
    /\ probe.calls < MaxCalls
    /\ \E fn \in {"switchToNative", "switchToWebview"} :
         /\ probe' = [probe EXCEPT !.fn = fn, !.out = "pending",
                                   !.webviewContext = Undefined,
                                   !.currentContext = Undefined,
                                   !.calls = @ + 1,
                                   !.prev = [fn |-> probe.fn, out |-> probe.out,
                                             context |-> driver[1].context]]
         /\ pc' = [pc EXCEPT ![1] = IF fn = "switchToNative" THEN "sn_getContext"
                                    ELSE "sw_while"]
    /\ run' = [run EXCEPT ![1].polls = 0]
    /\ log' = [log EXCEPT ![1] = <<>>]
    /\ UNCHANGED <<driver, call, emitted>>
    /\ CtxFrame

\* switchToNative: const currentContext = await browser.getContext()
SnGetContext ==
    /\ pc[1] = "sn_getContext"
    /\ \/ /\ log' = [log EXCEPT ![1] = CtxLog("getContext", driver[1].context, TRUE)]
          /\ IF NeedsSwitch(driver[1].context, NATIVE_APP)
             THEN /\ probe' = [probe EXCEPT !.currentContext = driver[1].context]
                  /\ pc' = [pc EXCEPT ![1] = "sn_switchContext"]
             ELSE /\ probe' = [probe EXCEPT !.currentContext = driver[1].context,
                                            !.out = "returned"]
                  /\ pc' = [pc EXCEPT ![1] = "ctx_idle"]
       \/ /\ log' = [log EXCEPT ![1] = CtxLog("getContext", Undefined, FALSE)]
          /\ CtxEnds("threw")
    /\ UNCHANGED <<driver, run, call, emitted>>
    /\ CtxFrame

\* switchToNative: await browser.switchContext('NATIVE_APP')
SnSwitchContext ==
    /\ pc[1] = "sn_switchContext"
    /\ \/ /\ log' = [log EXCEPT ![1] = CtxLog("switchContext", NATIVE_APP, TRUE)]
          /\ driver' = [driver EXCEPT ![1].context = NATIVE_APP]
          /\ CtxEnds("returned")
       \/ /\ log' = [log EXCEPT ![1] = CtxLog("switchContext", NATIVE_APP, FALSE)]
          /\ CtxEnds("threw")
          /\ UNCHANGED driver
    /\ UNCHANGED <<run, call, emitted>>
    /\ CtxFrame

\* switchToWebview: while (Date.now() - start < timeout), and the throw of
\* 'WEBVIEW context not found within timeout' after the loop
SwWhile ==
    /\ pc[1] = "sw_while"
    /\ IF Elapsed < MaxPolls
       THEN /\ pc' = [pc EXCEPT ![1] = "sw_getContexts"]
            /\ UNCHANGED probe
       ELSE CtxEnds("timeout")
    /\ UNCHANGED <<driver, run, call, emitted, log>>
    /\ CtxFrame

\* const contexts = await browser.getContexts(); contexts.find(...)
SwGetContexts ==
    /\ pc[1] = "sw_getContexts"
    /\ \E took \in CallDurations :
         /\ run' = [run EXCEPT ![1].polls = Min({MaxPolls, @ + took})]
         /\ \/ LET webviewContext == FindWebview(probe.contexts) IN
               /\ log' = [log EXCEPT ![1] = CtxLog("getContexts", webviewContext, TRUE)]
               /\ probe' = [probe EXCEPT !.webviewContext = webviewContext]
               /\ pc' = [pc EXCEPT ![1] = IF Truthy(webviewContext) THEN "sw_getContext"
                                          ELSE "sw_pause"]
            \/ /\ log' = [log EXCEPT ![1] = CtxLog("getContexts", Undefined, FALSE)]
               /\ pc' = [pc EXCEPT ![1] = "sw_pause"]
               /\ UNCHANGED probe
    /\ UNCHANGED <<driver, call, emitted>>
    /\ CtxFrame

\* const currentContext = await browser.getContext(), inside the try block
SwGetContext ==
    /\ pc[1] = "sw_getContext"
    /\ \/ /\ log' = [log EXCEPT ![1] = CtxLog("getContext", driver[1].context, TRUE)]
          /\ IF NeedsSwitch(driver[1].context, probe.webviewContext)
             THEN /\ probe' = [probe EXCEPT !.currentContext = driver[1].context]
                  /\ pc' = [pc EXCEPT ![1] = "sw_switchContext"]
             ELSE /\ probe' = [probe EXCEPT !.currentContext = driver[1].context,
                                            !.out = "returned"]
                  /\ pc' = [pc EXCEPT ![1] = "ctx_idle"]
       \/ /\ log' = [log EXCEPT ![1] = CtxLog("getContext", Undefined, FALSE)]
          /\ pc' = [pc EXCEPT ![1] = "sw_pause"]
          /\ UNCHANGED probe
    /\ UNCHANGED <<driver, run, call, emitted>>
    /\ CtxFrame

\* await browser.switchContext(webviewContext), inside the try block; return
SwSwitchContext ==
    /\ pc[1] = "sw_switchContext"
    /\ \/ /\ log' = [log EXCEPT ![1] = CtxLog("switchContext", probe.webviewContext, TRUE)]
          /\ driver' = [driver EXCEPT ![1].context = probe.webviewContext]
          /\ CtxEnds("returned")
       \/ /\ log' = [log EXCEPT ![1] = CtxLog("switchContext", probe.webviewContext, FALSE)]
          /\ pc' = [pc EXCEPT ![1] = "sw_pause"]
          /\ UNCHANGED <<driver, probe>>
    /\ UNCHANGED <<run, call, emitted>>
    /\ CtxFrame

\* await browser.pause(500)
SwPause ==
    /\ pc[1] = "sw_pause"
    /\ run' = [run EXCEPT ![1].polls = Min({MaxPolls, @ + 1})]
    /\ pc' = [pc EXCEPT ![1] = "sw_while"]
    /\ UNCHANGED <<probe, driver, call, emitted, log>>
    /\ CtxFrame

\* the application brings up a web view; the device lists the web views in
\* the order they came up
DeviceOpensWebview ==
    /\ \E w \in Webviews :
         /\ \A n \in 1..Len(probe.contexts) : probe.contexts[n] # w
         /\ probe' = [probe EXCEPT !.contexts = Append(@, w)]
    /\ UNCHANGED <<pc, run, driver, call, emitted, log>>
    /\ CtxFrame

\* the statements of switchToNative and switchToWebview
CtxStep ==
    \/ SnGetContext
    \/ SnSwitchContext
    \/ SwWhile
    \/ SwGetContexts
    \/ SwGetContext
    \/ SwSwitchContext
    \/ SwPause

NextCtx ==
    \/ CtxCall
    \/ CtxStep
    \/ DeviceOpensWebview

SpecCtx == InitCtx /\ [][NextCtx]_vars

\* every call of the driver returns or throws: a call under way goes on
SpecCtxFair == SpecCtx /\ WF_vars(CtxStep)


----------------------------------------------------------------------------
(* Properties of the context switcher, under SpecCtx *)

\* the switchContext calls of the call under way (or just over)
SwitchCalls == {n \in 1..Len(log[1]) : log[1][n].op = "switchContext"}

\* every switchContext follows a getContext that answered another context
SwitchesOnlyWhenElsewhere ==
    \A n \in SwitchCalls :
      /\ n > 1
      /\ log[1][n - 1].op = "getContext"
      /\ log[1][n - 1].ok
      /\ log[1][n - 1].arg # log[1][n].arg

\* the call returned, and so did the call before it, of the same function
SecondInARow ==
    /\ pc[1] = "ctx_idle"
    /\ probe.out = "returned"
    /\ probe.prev.out = "returned"
    /\ probe.prev.fn = probe.fn

\* C17: switchToNative and switchToWebview issue switchContext only after
\* getContext answered a context other than the target (NATIVE_APP, the found
\* WEBVIEW context), and a call that returns right after a call of the same
\* function returned issues no switchContext and leaves the driver in the
\* context the first call left it in.
C17_Idempotent ==
    /\ SwitchesOnlyWhenElsewhere
    /\ SecondInARow => (SwitchCalls = {} /\ driver[1].context = probe.prev.context)

\* switchToWebview returned twice in a row, the driver is in the web view
C17_Witness ==
    /\ SecondInARow
    /\ probe.fn = "switchToWebview"
    /\ driver[1].context = WEBVIEW_EXAMPLE
    /\ Len(probe.contexts) = 3
    /\ SwitchCalls = {}


----------------------------------------------------------------------------
(* Properties of switchToWebview, under SpecCtxFair *)

InSwitchToWebview == probe.fn = "switchToWebview" /\ pc[1] # "ctx_idle"

SwitchToWebviewOver == probe.fn = "switchToWebview" /\ pc[1] = "ctx_idle"

\* a getContexts, getContext or switchContext call of the call threw
DriverThrew == \E n \in 1..Len(log[1]) : ~log[1][n].ok

\* C18: every call of switchToWebview ends; it ends by returning with a
\* context whose name starts with WEBVIEW active or, once the timeout has
\* elapsed, by throwing the context-not-found error; an error of the driver
\* while polling does not end it.
C18_SwitchToWebviewTerminates ==
    /\ [](SwitchToWebviewOver =>
            \/ probe.out = "returned" /\ StartsWith(driver[1].context, WEBVIEW_PREFIX)
            \/ probe.out = "timeout" /\ Elapsed >= MaxPolls)
    /\ [](InSwitchToWebview /\ DriverThrew => probe.out = "pending")
    /\ (InSwitchToWebview ~> SwitchToWebviewOver)

\* the driver threw while polling, and the call ended with the timeout error
C18_Witness ==
    /\ SwitchToWebviewOver
    /\ probe.out = "timeout"
    /\ DriverThrew
    /\ Elapsed = MaxPolls


----------------------------------------------------------------------------
(* Properties of the command taken from the response, under SpecPure *)

Translated == probe.fn = "commandToExecute" /\ probe.out # NoCommand

\* C19 as stated: for a usable command c that translateStepsToCommands
\* answers bare, as the list [c] or wrapped as {steps: [c]}, the command handed
\* to executeCommand is c, and never the placeholder.
C19_AsStated ==
    (Translated /\ probe.in.shape \in {"bare", "array", "wrapped"}
        /\ probe.in.command \in TranslatedCommands)
      => (probe.out = probe.in.command /\ probe.out # Placeholder)


----------------------------------------------------------------------------
(* A run of executeTest whose driver and collaborator calls all return or
   throw *)

\* the scripts of the run: every script of one line, and the scripts of two
\* lines in which the wait for a page or for the webview is followed by a tap
FairStepLists ==
    {lines \in StepLists :
        \/ Len(lines) = 1
        \/ /\ Len(lines) = 2
           /\ lines[1] \in {STEP_WAIT_LOGIN, STEP_WAIT_WEBVIEW}
           /\ lines[2] = STEP_TAP_MARKED}

\* the translation of an ordinary step answers null or one bare command
FairEnv == run[1].commandResponse.shape \in {"none", "bare", "null"}

FairStart(r) == StartRunWith(r, FairStepLists)

FairStep(r) ==
    \/ FairStart(r)
    \/ Connect(r)
    \/ LoopHead(r)
    \/ LaunchStep(r)
    \/ SwitchToWebviewPoll(r)
    \/ WaitNativeStep(r)
    \/ WaitPage(r)
    \/ WaitPageTranslate(r)
    \/ WaitPageFind(r)
    \/ OrdSwitchNative(r)
    \/ OrdTranslate(r) /\ FairEnv'
    \/ ExecuteCommandStep(r)
    \/ OrdAfterCommand(r)
    \/ OrdCommandThrew(r)
    \/ Finally(r)

NextFair == FairStep(1)

\* every awaited call returns or throws, so the continuation of the run is
\* scheduled as long as the run has one
SpecFair == Init /\ [][NextFair]_vars /\ WF_vars(NextFair)

----------------------------------------------------------------------------
(* Properties of the end of a run, under SpecFair *)

\* the places of the terminal events among the events of the run
Terminals(r) ==
    {m \in 1..Len(emitted[r]) : emitted[r][m].type \in {"test-complete", "test-error"}}

\* every step of the script ended 'passed'
EveryStepPassed(r) ==
    \A k \in 1..Len(NonBlankLines(run[r].rawSteps)) : HasUpdate(r, k, "passed")

\* remote() returned: the session of the run was established
SessionStarted(r) == run[r].i >= 1

LastEvent(r) == emitted[r][Len(emitted[r])]

\* no event follows a terminal event
TerminalIsLast(r) == \A m \in Terminals(r) : m = Len(emitted[r])

\* C20 as stated: a started run ends; it emits exactly one terminal event,
\* 'test-complete' if and only if every step ended 'passed' and 'test-error'
\* otherwise; no step-update follows the terminal event.
C20_AsStated ==
    /\ [](RunEnded(1) =>
            /\ Cardinality(Terminals(1)) = 1
            /\ LastEvent(1) = (IF EveryStepPassed(1) THEN TestComplete ELSE TestError))
    /\ []TerminalIsLast(1)
    /\ (pc[1] # "idle" ~> RunEnded(1))

\* C20: a started run ends; it emits exactly one terminal event,
\* 'test-complete' if and only if its session was established and every step
\* ended 'passed', and 'test-error' otherwise: when a step fails, or when the
\* session cannot be established, whatever the steps; no step-update follows
\* the terminal event.
C20_OneTerminalEvent ==
    /\ [](RunEnded(1) =>
            /\ Cardinality(Terminals(1)) = 1
            /\ LastEvent(1) = (IF SessionStarted(1) /\ EveryStepPassed(1)
                               THEN TestComplete ELSE TestError))
    /\ []TerminalIsLast(1)
    /\ (pc[1] # "idle" ~> RunEnded(1))

\* the run of a script without steps ended with test-error
C20_Witness ==
    /\ RunEnded(1)
    /\ NonBlankLines(run[1].rawSteps) = <<>>
    /\ run[1].rawSteps # <<>>
    /\ LastEvent(1) = TestError

----------------------------------------------------------------------------
(* Properties of loadCache, under SpecCache *)

\* a file loadCache cannot use: missing, unreadable, no JSON document, or a
\* document with a two-part key whose value is no selector
Unusable(file) ==
    \/ file.state \in {"missing", "unreadable", "corrupt"}
    \/ file.state = "json" /\ MigrationThrows(file.doc)

\* the step is a call of loadCache: in SpecCache no other step ends at "loaded"
LoadReturned == pc'[1] = "loaded"

\* C21: loadCache(platform) never fails: every call returns, and when the file
\* of the platform is missing, unreadable, no valid JSON or cannot be migrated,
\* the in-memory cache after the call is empty and the run goes on to create
\* the cache of its application.
C21_LoadNeverFails ==
    [][LoadReturned =>
          /\ POM_FILE_PATH' \in Platforms
          /\ Unusable(files[POM_FILE_PATH']) => pomCache' = EmptyObject]_vars

\* a run wrote an entry, and the next run found the file of its platform
\* unreadable or corrupt: the cache is empty
C21_Witness ==
    /\ pc[1] = "loaded"
    /\ probe.fn = "put"
    /\ probe.reloaded
    /\ files[POM_FILE_PATH].state \in {"unreadable", "corrupt"}
    /\ pomCache = EmptyObject

----------------------------------------------------------------------------
(* Properties of the invalidation of executeCommand, under SpecCmd *)

\* the attempt on the cached selector failed: its resolution or wait, or the
\* action on the resolved element
CachedFailed(r) ==
    \/ Logged(r, "findElement", "cached", FALSE)
    \/ Logged(r, "action", "cached", FALSE)

\* the cached selector was handed to findElement again after the cached attempt
TriedAgain(r) ==
    \E n \in 1..Len(log[r]) :
        /\ log[r][n].op = "findElement"
        /\ log[r][n].phase # "cached"
        /\ log[r][n].arg = call[r].cachedSelector

\* the entry of the lookup key is gone from the cache and from the file
DeletionPersisted(r) ==
    /\ ~Has(CacheOf(r), LookupKey(call[r]))
    /\ lastSave = "ok"

\* C22 as stated: once the cached attempt has failed, the entry is deleted and
\* the deletion is in the file before the direct attempt starts, and the cached
\* selector is not handed to findElement a second time in that call, also when
\* the command's own selector is the same string.
C22_AsStated ==
    CachedFailed(1) =>
        /\ pc[1] \in {"cmd_direct", "cmd_heal"} => DeletionPersisted(1)
        /\ ~TriedAgain(1)

----------------------------------------------------------------------------
(* Properties of a command without selector, under SpecCmd *)

\* command.selector is null, undefined or empty
NoSelector(r) == ~Truthy(call[r].command.selector)

\* the cache held nothing under the lookup key, or the cached attempt failed
NoUsableEntry(r) == ~HadCachedEntry(r) \/ CachedFailed(r)

\* nothing of the direct attempt happened
DirectNotAttempted(r) ==
    /\ pc[r] # "cmd_direct"
    /\ \A n \in 1..Len(log[r]) : log[r][n].phase # "direct"

\* every call of the healing collaborator was given the original step text
HealedWithStepText(r) ==
    \A n \in 1..Len(log[r]) :
        log[r][n].op = "findCorrectSelector" => log[r][n].arg = call[r].step

\* C23 as stated: for a command without selector and without usable cache
\* entry, executeCommand does not attempt the direct resolution and calls the
\* healing collaborator exactly once, with the original step text.
C23_AsStated ==
    NoSelector(1) =>
        /\ DirectNotAttempted(1)
        /\ (CallEnded(1) /\ NoUsableEntry(1)) =>
              /\ CountOf(1, "findCorrectSelector") = 1
              /\ HealedWithStepText(1)

\* C23: for a command without selector and without usable cache entry,
\* executeCommand does not attempt the direct resolution and enters
\* self-healing: it asks the driver for the page source and, when the driver
\* answers, calls the healing collaborator exactly once with the original step
\* text; when getPageSource throws, the collaborator is not called and the call
\* throws the element-not-found error.
C23_NoSelectorHeals ==
    NoSelector(1) =>
        /\ DirectNotAttempted(1)
        /\ (CallEnded(1) /\ NoUsableEntry(1)) =>
              /\ HealedWithStepText(1)
              /\ IF Logged(1, "getPageSource", "heal", FALSE)
                 THEN /\ CountOf(1, "findCorrectSelector") = 0
                      /\ pc[1] = "cmd_threw"
                      /\ call[1].error = "not_found"
                 ELSE CountOf(1, "findCorrectSelector") = 1

\* a command without selector whose cached selector failed and whose healed
\* selector resolved
C23_Witness ==
    /\ pc[1] = "cmd_returned"
    /\ NoSelector(1)
    /\ CachedFailed(1)
    /\ HealResolved(1)
    /\ CountOf(1, "findCorrectSelector") = 1

----------------------------------------------------------------------------
(* Properties of an ordinary step whose translation is unusable, under Spec *)

\* the response is null, an empty list, or an object without a command
NothingUsable(response) == response.shape \in {"null", "emptyArray", "wrapped"}

\* the ordinary step in progress was answered with nothing usable
UnusableAnswer(r) == NothingUsable(run[r].commandResponse)

CommandLabels ==
    {"cmd_cached", "cmd_direct", "cmd_heal", "cmd_act", "cmd_pause", "cmd_returned",
     "cmd_threw"}

\* the element of the returned call was resolved by the cached selector or by
\* the healed one
CachedOrHealedResolved(r) ==
    \/ Logged(r, "findElement", "cached", TRUE)
    \/ Logged(r, "findElement", "heal", TRUE)

\* executeCommand was invoked with the placeholder and the step text, and
\* returns only when a cached or a healed selector resolved
PlaceholderExecuted(r) ==
    UnusableAnswer(r) =>
        /\ call[r].command = Placeholder
        /\ call[r].step = CurrentStep(r)
        /\ call[r].page = run[r].currentPageName
        /\ pc[r] \in CommandLabels \cup {"sw_poll"}
        /\ pc[r] = "sw_poll" => run[r].ret = "post"
        /\ pc[r] # "cmd_direct"
        /\ pc[r] = "cmd_returned" => CachedOrHealedResolved(r)

\* the step emits 'passed'
EmitsPassed(r) ==
    /\ Len(emitted'[r]) = Len(emitted[r]) + 1
    /\ emitted'[r][Len(emitted'[r])] = StepUpdate(run[r].i, "passed")

\* 'passed' is emitted only after executeCommand returned, directly or after
\* the webview was asserted again
NotPassedSilently(r) ==
    UnusableAnswer(r) =>
        /\ EmitsPassed(r) => pc[r] \in {"cmd_returned", "sw_poll"}
        /\ (pc'[r] = "sw_poll" /\ pc[r] # "sw_poll") => pc[r] = "cmd_returned"

\* C24: for an ordinary step whose translation returns null, an empty list or
\* an object without a command, executeTest invokes executeCommand with the
\* placeholder {command: verifyVisible, selector: null} and the step text; the
\* step is not skipped, and it emits 'passed' only after executeCommand
\* returned, which it does only when a cached or a healed selector resolved.
C24_PlaceholderExecuted ==
    /\ []PlaceholderExecuted(1)
    /\ [][NotPassedSilently(1)]_vars

\* a step answered with an empty list, executed as the placeholder and healed
C24_Witness ==
    /\ pc[1] = "cmd_returned"
    /\ run[1].commandResponse.shape = "emptyArray"
    /\ call[1].command = Placeholder
    /\ HealResolved(1)

----------------------------------------------------------------------------
(* Properties of the settle delay of executeCommand, under SpecCmd *)

\* the places of the log at which click / setValue was performed
ActionsPerformed(r) ==
    {n \in 1..Len(log[r]) : log[r][n].op = "action" /\ log[r][n].ok}

\* browser.pause was called after the action at place n
PausedAfter(r, n) ==
    \E m \in (n + 1)..Len(log[r]) : log[r][m].op = "pause"

\* C25 as stated: whenever executeCommand returns after having performed the
\* action, on the cached, the direct or the healed element, browser.pause was
\* called after the action.
C25_AsStated ==
    pc[1] = "cmd_returned" =>
        \A n \in ActionsPerformed(1) : PausedAfter(1, n)

----------------------------------------------------------------------------
(* Properties of the execution context of a run, under Spec *)

\* a step of the script is being processed
InStep(r) ==
    pc[r] \in CommandLabels \cup
        {"launch", "sw_poll", "wait_native", "wait_page", "wait_ai", "wait_find",
         "ord_native", "ord_translate"}

\* the kind of the step being processed
KindInStep(r) == StepKindOf[CurrentStep(r)]

PageNameChanges(r) == run'[r].currentPageName # run[r].currentPageName
ActiveContextChanges(r) == run'[r].activeContext # run[r].activeContext

\* C26 as stated: currentPageName and activeContext change only while a
\* page-load wait step is processed; a launch step and an ordinary step leave
\* both unchanged.
C26_AsStated ==
    [][(PageNameChanges(1) \/ ActiveContextChanges(1)) =>
          (InStep(1) /\ KindInStep(1) \in WaitKinds)]_vars

\* the fallback of an ordinary step: switchToWebview timed out, before the
\* command or after it, the driver was switched to native and activeContext
\* was set to 'native'
SurfaceFallback(r) ==
    /\ InStep(r)
    /\ KindInStep(r) = "ordinary"
    /\ pc[r] = "sw_poll"
    /\ run[r].ret \in {"pre", "post"}
    /\ run[r].activeContext = "webview"
    /\ run'[r].activeContext = "native"
    /\ driver'[r].context = NATIVE_APP

\* C26: currentPageName changes only while a page-load wait step that names
\* neither surface is processed; activeContext changes only while a page-load
\* wait step that names a surface is processed, or, from 'webview' to 'native',
\* when an ordinary step falls back to the native surface after the timeout of
\* switchToWebview; a launch step leaves both unchanged, and so does an
\* ordinary step but for that fallback.
C26_ContextMutation ==
    [][/\ PageNameChanges(1) => (InStep(1) /\ KindInStep(1) = "wait_page")
       /\ ActiveContextChanges(1) =>
             \/ InStep(1) /\ KindInStep(1) \in {"wait_webview", "wait_native"}
             \/ SurfaceFallback(1)]_vars

\* the ordinary step that follows a passed webview wait runs on, with
\* activeContext 'native': it fell back
C26_Witness ==
    /\ run[1].i = 2
    /\ run[1].allSteps = <<STEP_WAIT_WEBVIEW, STEP_TAP_MARKED>>
    /\ pc[1] = "ord_translate"
    /\ run[1].activeContext = "native"
    /\ driver[1].context = NATIVE_APP

----------------------------------------------------------------------------
(* Properties of the surface fallback of an ordinary step, under Spec *)

\* an ordinary step waits for the webview, before its command or after it
OrdinaryAtPoll(r) == pc[r] = "sw_poll" /\ run[r].ret \in {"pre", "post"}

\* the step emits 'failed'
EmitsFailed(r) ==
    \E m \in (Len(emitted[r]) + 1)..Len(emitted'[r]) :
        emitted'[r][m] = StepUpdate(run[r].i, "failed")

\* switchToWebview timed out: the catch block called switchToNative
FellBack(r) ==
    /\ Len(log'[r]) = Len(log[r]) + 1
    /\ log'[r][Len(log'[r])].op = "switchToNative"

FallbackSwitched(r) == log'[r][Len(log'[r])].ok

\* the step goes on after the fallback: to the page source and the translation
\* before the command, to 'passed' after it
ContinuesAfterFallback(r) ==
    IF run[r].ret = "pre"
    THEN pc'[r] = "ord_translate" /\ emitted'[r] = emitted[r]
    ELSE EmitsPassed(r)

\* C27: while an ordinary step waits for the webview with activeContext
\* 'webview', before its command or after it, a timeout of switchToWebview makes
\* executeTest call switchToNative; when that call returns the driver is in
\* NATIVE_APP, activeContext is 'native' and the step goes on; the step ends
\* 'failed' there only when switchToNative itself throws, never by the timeout
\* alone.
C27_SurfaceFallback ==
    [][OrdinaryAtPoll(1) =>
          /\ run[1].activeContext = "webview"
          /\ KindInStep(1) = "ordinary"
          /\ EmitsFailed(1) => (FellBack(1) /\ ~FallbackSwitched(1))
          /\ (FellBack(1) /\ FallbackSwitched(1)) =>
                /\ driver'[1].context = NATIVE_APP
                /\ run'[1].activeContext = "native"
                /\ ContinuesAfterFallback(1)]_vars

\* the tap that follows a passed webview wait has passed on the native surface
C27_Witness ==
    /\ run[1].i = 3
    /\ run[1].allSteps = <<STEP_WAIT_WEBVIEW, STEP_TAP_MARKED>>
    /\ HasUpdate(1, 2, "passed")
    /\ run[1].activeContext = "native"
    /\ driver[1].context = NATIVE_APP

----------------------------------------------------------------------------
(* Properties of the launch step, under Spec *)

\* the step texts that contain 'launch the app', whatever else they contain
LaunchTexts == {s \in StepTexts : Includes(ToLowerCase(s), TEXT_LAUNCH)}

\* the step the loop is at has a launch text
AtLaunchText(r) ==
    /\ pc[r] = "loop" \/ InStep(r)
    /\ run[r].i \in 1..Len(run[r].allSteps)
    /\ CurrentStep(r) \in LaunchTexts

\* nothing but the position of the run and its events changes
LaunchFrame(r) ==
    /\ run'[r].currentPageName = run[r].currentPageName
    /\ run'[r].activeContext = run[r].activeContext
    /\ <<pomCache, localCache, files, lastSave, POM_FILE_PATH>>' =
           <<pomCache, localCache, files, lastSave, POM_FILE_PATH>>
    /\ driver' = driver
    /\ call'[r] = NoCall
    /\ log'[r] = <<>>

\* C28: a step whose text contains 'launch the app', also when the text reads
\* like a page-load wait as well, is taken by the launch branch: after
\* 'running' it pauses and emits 'passed'; it calls neither the translation nor
\* the healing collaborator, resolves no element, and leaves the cache, its
\* file, currentPageName, activeContext and the driver's context unchanged.
C28_LaunchStep ==
    [][AtLaunchText(1) =>
          /\ LaunchFrame(1)
          /\ IF pc[1] = "loop"
             THEN /\ pc'[1] = "launch"
                  /\ emitted'[1] = Append(emitted[1], StepUpdate(run[1].i, "running"))
             ELSE /\ pc[1] = "launch"
                  /\ pc'[1] = "loop"
                  /\ run'[1].i = run[1].i + 1
                  /\ emitted'[1] = Append(emitted[1], StepUpdate(run[1].i, "passed"))]_vars

\* a step that reads like a launch and like a page-load wait has passed, and
\* the step after it is under way
C28_Witness ==
    /\ run[1].i = 2
    /\ run[1].allSteps[1] = STEP_LAUNCH_WAIT
    /\ HasUpdate(1, 1, "passed")
    /\ pc[1] = "ord_translate"

----------------------------------------------------------------------------
(* Properties of the translation calls of a run, under Spec *)

\* the number of answered translation calls of run r for the text step
TranslateCallsFor(r, step) ==
    Cardinality({j \in DOMAIN run[r].translateCalls : run[r].translateCalls[j] = step})

\* step k of run r is a page-load wait and step k + 1 an ordinary step
WaitThenOrdinary(r, k) ==
    /\ k + 1 <= Len(run[r].allSteps)
    /\ StepKindOf[run[r].allSteps[k]] = "wait_page"
    /\ StepKindOf[run[r].allSteps[k + 1]] = "ordinary"

\* C29 as stated: for a page-load wait step immediately followed by an
\* ordinary step S, translateStepsToCommands is called at most once for the
\* text of S over the wait step and the execution of S together.
C29_AsStated ==
    \A k \in 1..MaxSteps :
        WaitThenOrdinary(1, k) =>
            TranslateCallsFor(1, run[1].allSteps[k + 1]) <= 1

----------------------------------------------------------------------------
(* Properties of findElement in a WEBVIEW context, under SpecPure *)

\* findElement handed a query to browser.$
Queried == probe.fn = "findElement" /\ probe.out \notin {Pending, SelectorError}

\* the selector unchanged, or without its css= prefix
PassedThrough(selector) ==
    IF StartsWith(ToLowerCase(selector), <<"c", "s", "s", "=">>)
    THEN SubSeq(selector, 5, Len(selector))
    ELSE selector

----------------------------------------------------------------------------
(* Properties of findElement in the native context, under SpecPure *)

\* findElement handed a query to browser.$ outside a WEBVIEW context
QueriedNative ==
    /\ Queried
    /\ probe.in.context = NATIVE_APP
    /\ probe.in.getContext = "answers"

\* the head of the free-text query: //*[contains(translate(@text,
FREE_TEXT_HEAD == <<"/", "/", "*", "[", "c", "o", "n", "t", "a", "i", "n", "s", "(", "t", "r", "a", "n", "s", "l", "a", "t", "e", "(", "@", "t", "e", "x", "t", ",", " ">>

WrappedAsFreeText(query) == StartsWith(query, FREE_TEXT_HEAD)

\* a selector of a structured form
Structured(selector) ==
    \/ determineLocatorStrategy(selector)
           \in {STRAT_XPATH, STRAT_RESOURCE, STRAT_ACCESSIBILITY}
    \/ StartsWith(ToLowerCase(selector), <<"c", "s", "s", "=">>)

\* C31 as stated: in the native surface a selector that determineLocatorStrategy
\* classifies as xpath, resource-id or accessibility-id, or that carries a css=
\* prefix, is never wrapped into the free-text 'contains' query.
C31_AsStated ==
    (QueriedNative /\ Structured(probe.in.selector)) => ~WrappedAsFreeText(probe.out)

----------------------------------------------------------------------------
(* Properties of a throwing translation of an ordinary step, under Spec *)

\* the step taken leaves the translation of an ordinary step without an answer
TranslationThrew(r) ==
    /\ pc[r] = "ord_translate"
    /\ pc'[r] # "ord_translate"
    /\ run'[r].translateCalls = run[r].translateCalls

\* the events 'failed' for the step and test-error are emitted, and the run
\* leaves the step loop
SurfacedAsFailed(r) ==
    /\ emitted'[r] = emitted[r] \o <<StepUpdate(run[r].i, "failed"), TestError>>
    /\ pc'[r] = "finally"
    /\ run'[r].i = run[r].i

\* C32: when the translation collaborator throws while an ordinary step is
\* processed, the step ends 'failed' and the run ends with test-error;
\* executeCommand and the healing collaborator are not invoked for the step
\* (no call is entered, nothing is logged), and the cache and its file are
\* unchanged.
C32_TranslationErrorSurfaced ==
    [][TranslationThrew(1) =>
          /\ SurfacedAsFailed(1)
          /\ call'[1] = NoCall
          /\ log'[1] = log[1]
          /\ <<pomCache, localCache, files, lastSave>>' =
                 <<pomCache, localCache, files, lastSave>>]_vars

\* the second step, an ordinary one in the webview surface, failed without an
\* answer of the translation, without a fallback to the native context and
\* without a call of executeCommand
C32_Witness ==
    /\ pc[1] = "finally"
    /\ run[1].i = 2
    /\ Len(run[1].allSteps) = 2
    /\ KindInStep(1) = "ordinary"
    /\ run[1].activeContext = "webview"
    /\ run[1].translateCalls = <<>>
    /\ call[1] = NoCall
    /\ log[1] = <<>>
    /\ Len(emitted[1]) >= 2
    /\ emitted[1][Len(emitted[1]) - 1] = StepUpdate(2, "failed")
    /\ emitted[1][Len(emitted[1])] = TestError

----------------------------------------------------------------------------
(* Properties of the order of the steps of a run, under Spec *)

\* the non-blank lines of the script of run r, in input order
ScriptSteps(r) == SelectSeq(run[r].rawSteps, LAMBDA s : Trim(s) # <<>>)

\* the step-update events so far are running 1, terminal 1, running 2, ...:
\* event m belongs to step (m + 1) \div 2, the odd ones are 'running', the
\* even ones 'passed' or 'failed', and a 'running' follows a 'passed'
InStepOrder(r) ==
    LET updates == StepUpdates(r) IN
    /\ Len(updates) <= 2 * Len(ScriptSteps(r))
    /\ \A m \in 1..Len(updates) :
         /\ updates[m].stepNumber = (m + 1) \div 2
         /\ IF m % 2 = 1
            THEN /\ updates[m].status = "running"
                 /\ m > 1 => updates[m - 1].status = "passed"
            ELSE updates[m].status \in {"passed", "failed"}

\* C33: within one run the steps are the non-blank lines of the script in
\* input order, numbered 1, 2, 3, ...; every processed step emits 'running'
\* before its terminal event, gets at most one terminal event, and 'running'
\* of step i + 1 is emitted only after 'passed' of step i.
C33_StepsInOrder ==
    /\ run[1].i >= 1 => run[1].allSteps = ScriptSteps(1)
    /\ InStepOrder(1)

\* both steps of a two-step script passed, one after the other
C33_Witness ==
    /\ pc[1] = "done"
    /\ Len(run[1].allSteps) = 2
    /\ StepUpdates(1) = <<StepUpdate(1, "running"), StepUpdate(1, "passed"),
                          StepUpdate(2, "running"), StepUpdate(2, "passed")>>

----------------------------------------------------------------------------
(* Properties of the page-load wait steps, under Spec *)

\* the step taken ends a page-load wait step that names a surface
SurfaceWaitEnds(r) ==
    /\ \/ pc[r] = "sw_poll" /\ run[r].ret = "wait"
       \/ pc[r] = "wait_native"
    /\ pc'[r] # pc[r]

\* the surface the text of the step names
NamedSurface(r) == IF KindInStep(r) = "wait_webview" THEN "webview" ELSE "native"

\* no cache lookup, no translation, no call of executeCommand
NoLookup(r) ==
    /\ pc'[r] \in {"loop", "finally"}
    /\ call'[r] = call[r]
    /\ run'[r].translateCalls = run[r].translateCalls
    /\ <<pomCache, localCache, files, lastSave>>' = <<pomCache, localCache, files, lastSave>>

\* the step taken emits the event 'passed' of the step in progress
EmitsPassedNow(r) ==
    emitted'[r] = Append(emitted[r], StepUpdate(run[r].i, "passed"))

\* the step taken is the one of a page-load wait naming no surface that sets
\* the page label
PageWaitLabels(r) == pc[r] = "wait_page" /\ pc'[r] # "wait_page"

\* C34 as stated: a page-load wait step naming a surface sets activeContext
\* accordingly, emits 'passed', leaves currentPageName unchanged and performs
\* no cache lookup or translation; every other page-load wait step whose text
\* matches 'wait for app to load the <label> page' sets currentPageName to the
\* trimmed, lower-cased label, and one without a label leaves it unchanged.
C34_AsStated ==
    [][/\ SurfaceWaitEnds(1) =>
              /\ EmitsPassedNow(1)
              /\ run'[1].activeContext = NamedSurface(1)
              /\ run'[1].currentPageName = run[1].currentPageName
              /\ NoLookup(1)
       /\ PageWaitLabels(1) =>
              LET label == PageLabelMatch(CurrentStep(1)) IN
              run'[1].currentPageName =
                  IF label # Null THEN ToLowerCase(Trim(label))
                  ELSE run[1].currentPageName]_vars

\* C34: a page-load wait step naming a surface leaves currentPageName
\* unchanged and performs no cache lookup or translation; when the switch
\* succeeds it sets activeContext to the named surface and emits 'passed',
\* otherwise it ends 'failed' with activeContext unchanged.  Every other
\* page-load wait step whose text matches with a non-empty label sets
\* currentPageName to the trimmed, lower-cased label; without a label, or with
\* an empty one, currentPageName is unchanged.
C34_SurfaceOrLabel ==
    [][/\ SurfaceWaitEnds(1) =>
              /\ run'[1].currentPageName = run[1].currentPageName
              /\ NoLookup(1)
              /\ IF EmitsPassedNow(1)
                 THEN run'[1].activeContext = NamedSurface(1)
                 ELSE /\ EmitsFailed(1)
                      /\ run'[1].activeContext = run[1].activeContext
       /\ PageWaitLabels(1) =>
              LET label == PageLabelMatch(CurrentStep(1)) IN
              run'[1].currentPageName =
                  IF label # Null /\ label # <<>> THEN ToLowerCase(Trim(label))
                  ELSE run[1].currentPageName]_vars

\* a wait naming the webview passed and set activeContext, then a wait for
\* the Login page passed and set currentPageName
C34_Witness ==
    /\ run[1].allSteps = <<STEP_WAIT_WEBVIEW, STEP_WAIT_LOGIN>>
    /\ run[1].i = 3
    /\ HasUpdate(1, 1, "passed")
    /\ HasUpdate(1, 2, "passed")
    /\ run[1].activeContext = "webview"
    /\ run[1].currentPageName = PAGE_LOGIN

----------------------------------------------------------------------------
(* page_utils: waitForPageStability *)

\* the timeouts and intervals of a call, in units of the shortest interval,
\* and the time getPageSource and pause may take beyond the interval
MaxTimeout == 4
MaxInterval == 2
MaxLag == 1

\* what browser.getPageSource() may answer: '', 'a', 'b'
Snapshots == {<<>>, <<"a">>, <<"b">>}

\* a call of waitForPageStability(browser, timeout, interval): lastSource,
\* the snapshots polled so far and Date.now() - startTime
StabilityCall(timeout, interval) ==
    [fn |-> "waitForPageStability", in |-> [timeout |-> timeout, interval |-> interval],
     out |-> Pending, lastSource |-> Null, polled |-> <<>>, now |-> 0, at |-> "loop"]

InitStability ==
    /\ probe \in {StabilityCall(timeout, interval) :
                     timeout \in 2..MaxTimeout, interval \in 1..MaxInterval}
    /\ files = [p \in Platforms |-> FileMissing]
    /\ POM_FILE_PATH = NoPath
    /\ pomCache = EmptyObject
    /\ lastSave = "none"
    /\ pc = [r \in Runs |-> "idle"]
    /\ run = [r \in Runs |-> IdleRun]
    /\ call = [r \in Runs |-> NoCall]
    /\ driver = [r \in Runs |-> IdleDriver]
    /\ localCache = [r \in Runs |-> NotDetached]
    /\ emitted = [r \in Runs |-> <<>>]
    /\ log = [r \in Runs |-> <<>>]

\* faulty variant of StabilityTimeout: the first snapshot polled is returned
StabilityTimeout_Stale ==
    /\ probe.at = "loop"
    /\ ~(probe.now < probe.in.timeout)
    /\ probe' = [probe EXCEPT !.out = probe.polled[1], !.at = "returned"]
    /\ UNCHANGED <<files, POM_FILE_PATH, pomCache, lastSave, pc, run, call, driver,
                   localCache, emitted, log>>

\* one iteration of the loop: getPageSource, the comparison with lastSource,
\* the return of a snapshot equal to it, or the assignment and the pause
PollPageSource ==
    /\ probe.at = "loop"
    /\ probe.now < probe.in.timeout
    /\ \/ \* getPageSource throws: the promise of the call is rejected
          probe' = [probe EXCEPT !.at = "threw"]
       \/ \E currentSource \in Snapshots, lag \in 0..MaxLag :
            IF Truthy(probe.lastSource) /\ currentSource = probe.lastSource
            THEN probe' = [probe EXCEPT !.polled = Append(@, currentSource),
                                        !.out = currentSource,
                                        !.at = "returned"]
            ELSE probe' = [probe EXCEPT !.polled = Append(@, currentSource),
                                        !.lastSource = currentSource,
                                        !.now = @ + probe.in.interval + lag]
    /\ UNCHANGED <<files, POM_FILE_PATH, pomCache, lastSave, pc, run, call, driver,
                   localCache, emitted, log>>

\* the loop ends, the timeout is reached: return lastSource
StabilityTimeout ==
    /\ probe.at = "loop"
    /\ ~(probe.now < probe.in.timeout)
    /\ probe' = [probe EXCEPT !.out = probe.lastSource, !.at = "returned"]
    /\ UNCHANGED <<files, POM_FILE_PATH, pomCache, lastSave, pc, run, call, driver,
                   localCache, emitted, log>>

NextStability ==
    \/ PollPageSource
    \/ StabilityTimeout

SpecStability == InitStability /\ [][NextStability]_vars

\* every call of getPageSource and of pause returns or throws
SpecStabilityFair == SpecStability /\ WF_vars(NextStability)

----------------------------------------------------------------------------
(* Properties of waitForPageStability, under SpecStabilityFair *)

\* two consecutive polled snapshots are identical
Repeated(polled) == \E k \in 1..(Len(polled) - 1) : polled[k] = polled[k + 1]

\* two consecutive polled snapshots are identical and not empty
RepeatedNonEmpty(polled) ==
    \E k \in 1..(Len(polled) - 1) : polled[k] = polled[k + 1] /\ polled[k] # <<>>

\* the call returned the snapshot polled last
ReturnedLast ==
    probe.at = "returned" =>
        /\ probe.polled # <<>>
        /\ probe.out = probe.polled[Len(probe.polled)]

----------------------------------------------------------------------------
(* Properties of the action of executeCommand, under SpecCmd *)

\* C36 as stated: one call of executeCommand attempts the action (click or
\* setValue) at most once, whatever resolutions or actions fail.
C36_AsStated == CountOf(1, "action") <= 1

----------------------------------------------------------------------------
(* A run that finds a file of the flat two-part-key layout *)

InitLegacy ==
    /\ probe = IdleProbe
    /\ files \in [Platforms -> {FileJson(DOC_FLAT_LEGACY), FileJson(DOC_NESTED)}]
    /\ POM_FILE_PATH = NoPath
    /\ pomCache = EmptyObject
    /\ lastSave = "none"
    /\ pc = [r \in Runs |-> "idle"]
    /\ run = [r \in Runs |-> IdleRun]
    /\ call = [r \in Runs |-> NoCall]
    /\ driver = [r \in Runs |-> IdleDriver]
    /\ localCache = [r \in Runs |-> NotDetached]
    /\ emitted = [r \in Runs |-> <<>>]
    /\ log = [r \in Runs |-> <<>>]

SpecLegacy == InitLegacy /\ [][Next]_vars

----------------------------------------------------------------------------
(* Properties of the keys of the cache, under SpecLegacy *)

\* the strategy component of a key of three parts or more is the strategy of
\* the selector stored under it
StrategyMatches(key, selector) ==
    LET parts == Split(key, KEY_SEPARATOR)
    IN  Len(parts) >= 3 => parts[Len(parts)] = determineLocatorStrategy(selector)

\* the same of every entry of an application's cache
EntriesMatch(entries) ==
    \A n \in 1..Len(entries) : StrategyMatches(entries[n].k, entries[n].v)

\* the selectors of the top level of pomCache, as the migration leaves them:
\* no key of two parts is left, and the keys written match their selectors
TopLevelMatches ==
    \A n \in 1..Len(pomCache) :
        pomCache[n].v.kind = "selector" =>
            /\ Len(Split(pomCache[n].k, KEY_SEPARATOR)) # 2
            /\ StrategyMatches(pomCache[n].k, pomCache[n].v.sel)

\* C37: in every reachable state every cache entry written by executeCommand,
\* by the wait step or by the migration of loadCache has a key whose strategy
\* component is determineLocatorStrategy of the selector stored under it.
C37_KeyMatchesSelector ==
    /\ TopLevelMatches
    /\ \A n \in 1..Len(pomCache) :
         pomCache[n].v.kind = "app" => EntriesMatch(pomCache[n].v.entries)
    /\ \A r \in Runs : EntriesMatch(localCache[r].entries)

\* the migration wrote the key of the XPath selector of the flat file, and a
\* step of the run wrote an entry of the application
C37_Witness ==
    /\ Has(pomCache, WrittenEntry(PAGE_LOGIN, ELEMENT_LOGIN, SEL_X).k)
    /\ run[1].i = 2
    /\ HasUpdate(1, 1, "passed")
    /\ AppEntries(pomCache, run[1].appId) # EmptyObject

----------------------------------------------------------------------------
(* Properties of a failing call of executeCommand, under SpecCmd *)

\* the call threw the element-not-found error
ThrewNotFound(r) == pc[r] = "cmd_threw" /\ call[r].error = "not_found"

\* the call found a truthy selector under its key and tried it
TriedCachedKey(r) == Truthy(Get(probe.in, LookupKey(call[r])))

----------------------------------------------------------------------------
(* Properties of the driver's context at executeCommand, under Spec *)

\* executeCommand was invoked for the step and has not ended
InCommand(r) == pc[r] \in {"cmd_cached", "cmd_direct", "cmd_heal", "cmd_act", "cmd_pause"}

\* the context of the driver is the one activeContext names
ContextAgrees(r) ==
    IF run[r].activeContext = "native"
    THEN driver[r].context = NATIVE_APP
    ELSE /\ run[r].activeContext = "webview"
         /\ StartsWith(driver[r].context, WEBVIEW_PREFIX)

\* C39: whenever executeCommand is invoked for an ordinary step, and as long
\* as the call lasts, the driver's context agrees with activeContext: it is
\* NATIVE_APP when activeContext is 'native' and a WEBVIEW context when it is
\* 'webview'.
C39_ContextAgrees == InCommand(1) => ContextAgrees(1)

\* executeCommand is invoked for the step after a wait that named the
\* webview, with the driver in the WEBVIEW context
C39_Witness ==
    /\ InCommand(1)
    /\ run[1].i = 2
    /\ run[1].activeContext = "webview"
    /\ driver[1].context = WEBVIEW_EXAMPLE


----------------------------------------------------------------------------
(* Properties of the finally block of executeTest, under SpecFair *)

\* the functions the finally block called, in the order of the calls
CleanupFns(r) == [m \in 1..Len(run[r].cleanup) |-> run[r].cleanup[m].fn]

\* deleteSession was called and threw
DeleteSessionThrew(r) ==
    \E m \in 1..Len(run[r].cleanup) :
        run[r].cleanup[m] = CleanupCall("deleteSession", TRUE)

\* a step of the run ended 'failed'
SomeStepFailed(r) ==
    \E m \in 1..Len(emitted[r]) :
        emitted[r][m].type = "step-update" /\ emitted[r][m].status = "failed"

\* the run called saveCache and then deleteSession, once each
SavedThenDeleted(r) == CleanupFns(r) = <<"saveCache", "deleteSession">>

\* no event is emitted once the finally block has made its calls
NoEventAfterCleanup(r) == run[r].cleanup' # <<>> => emitted'[r] = emitted[r]

\* C40 as stated: a run that obtained a session ends; on the passing and on
\* the failing path it saves the cache and then deletes the session exactly
\* once, after its last event; the session is released and executeTest does not
\* reject.
C40_AsStated ==
    /\ [](RunEnded(1) /\ SessionStarted(1) =>
            /\ SavedThenDeleted(1)
            /\ ~DeleteSessionThrew(1)
            /\ pc[1] = "done")
    /\ [][NoEventAfterCleanup(1)]_vars
    /\ (SessionStarted(1) ~> RunEnded(1))

\* C40: a run that obtained a session ends; on the passing and on the failing
\* path it calls saveCache and then deleteSession exactly once, after its last
\* event, and a run without a session calls saveCache alone; a failed step is
\* reported by test-error, and executeTest rejects exactly when deleteSession
\* throws, which leaves the session unreleased on either path.
C40_SessionDeletedOnce ==
    /\ [](RunEnded(1) =>
            /\ IF SessionStarted(1) THEN SavedThenDeleted(1)
               ELSE CleanupFns(1) = <<"saveCache">>
            /\ pc[1] = "rejected" <=> DeleteSessionThrew(1)
            /\ SomeStepFailed(1) => LastEvent(1) = TestError)
    /\ [](~RunEnded(1) => run[1].cleanup = <<>>)
    /\ [][NoEventAfterCleanup(1)]_vars
    /\ (SessionStarted(1) ~> RunEnded(1))

\* a step failed, the cache was saved, the session deleted and executeTest
\* resolved
C40_Witness ==
    /\ pc[1] = "done"
    /\ SomeStepFailed(1)
    /\ LastEvent(1) = TestError
    /\ run[1].cleanup = <<CleanupCall("saveCache", FALSE),
                          CleanupCall("deleteSession", FALSE)>>

============================================================================
